---------------------------- MODULE Spec2Model ----------------------------
(***************************************************************************)
(* A model of the MWEB light-client synchronisation core of neutrino       *)
(* (src/mweb.go, src/banman/reason.go): the MMR index arithmetic, the UTXO *)
(* proof verifier verifyMwebUtxos, the leafset differ and the sync         *)
(* coordinator getMwebUtxos with its response handler handleResponse.      *)
(*                                                                         *)
(* Hashes are injective terms: blake3 over distinct inputs gives distinct  *)
(* tuples.  A hash is a tuple whose first element is a tag:                *)
(*   <<"id", k>>            an output id (or any other 32-byte value)      *)
(*   <<"leaf", n, d>>       nodeIdx.hash(d) of node n                      *)
(*   <<"node", n, l, r>>    nodeIdx.parentHash(l, r) of node n             *)
(*   <<"zero">>             chainhash.Hash{}                               *)
(*   <<>>                   the nil pointer                                *)
(***************************************************************************)
EXTENDS Integers, Sequences, FiniteSets, TLC

(***************************************************************************)
(* verifyMwebHeader, lines 19-85.  The input in holds the two messages     *)
(* (Nil for a nil pointer) and, for what the function computes with code   *)
(* of other packages, the values that code yields: blockHash is            *)
(* Merkle.Header.BlockHash(), extractResult the result of                  *)
(* bloom.VerifyMerkleBlock, hogexTxHash is Hogex.TxHash(), mwebHeaderHash  *)
(* is MwebHeader.Hash() and leafsetHash is blake3.Sum256 of the leafset.   *)
(* The result is "true", "false", or "panic" where the Go runtime raises   *)
(* an index out of range.                                                  *)
(***************************************************************************)
NilMsg == [kind |-> "nil"]

\* Lines 65-66: <OP_8><0x20> followed by the hash of the MWEB header.
HogAddrScript(mwebHeaderHash) == <<88, 32, mwebHeaderHash>>

\* Lines 62-84.
verifyHogAddr(in) ==
    IF Len(in.mwebHeader.Hogex.TxOut) = 0 THEN "panic"
    ELSE IF in.mwebHeader.Hogex.TxOut[1].PkScript
                # HogAddrScript(in.mwebHeaderHash)
    THEN "false"
    ELSE IF in.leafsetHash # in.mwebHeader.MwebHeader.LeafsetRoot
    THEN "false"
    ELSE "true"

\* Lines 49-60.  Transactions is a uint32: 0 - 1 wraps to 2^32 - 1, the
\* position of no transaction.
verifyFinalTx(in) ==
    IF Len(in.extractResult.Match) = 0 THEN "panic"
    ELSE IF in.hogexTxHash
                # in.extractResult.Match[Len(in.extractResult.Match)]
    THEN "false"
    ELSE IF Len(in.extractResult.Index) = 0 THEN "panic"
    ELSE IF \/ in.mwebHeader.Merkle.Transactions = 0
            \/ in.extractResult.Index[Len(in.extractResult.Index)]
                   # in.mwebHeader.Merkle.Transactions - 1
    THEN "false"
    ELSE verifyHogAddr(in)

verifyMwebHeader(in) ==
    IF in.mwebHeader = NilMsg \/ in.mwebLeafset = NilMsg THEN "false"
    ELSE IF in.blockHash # in.lastHash THEN "false"
    ELSE IF in.extractResult.Root # in.mwebHeader.Merkle.Header.MerkleRoot
    THEN "false"
    ELSE IF ~in.mwebHeader.Hogex.IsHogEx THEN "false"
    ELSE verifyFinalTx(in)

(***************************************************************************)
(* Bit arithmetic of math/bits.                                            *)
(***************************************************************************)
RECURSIVE Pow2(_)
Pow2(n) == IF n = 0 THEN 1 ELSE 2 * Pow2(n - 1)

RECURSIVE OnesCount64(_)
OnesCount64(x) == IF x = 0 THEN 0 ELSE (x % 2) + OnesCount64(x \div 2)

\* 64 - bits.LeadingZeros64(x): the number of bits needed to write x.
RECURSIVE Len64(_)
Len64(x) == IF x = 0 THEN 0 ELSE 1 + Len64(x \div 2)

(***************************************************************************)
(* leafset: a sequence of bytes, bit i of the set being bit 0x80 >> (i%8)  *)
(* of byte i/8 (Go indexes from 0, a TLA+ sequence from 1).                *)
(***************************************************************************)
\* The test with the bits of a byte counted from the low end.
containsLowBitFirst(l, i) ==
    IF i \div 8 >= Len(l)
    THEN FALSE
    ELSE (l[(i \div 8) + 1] \div Pow2(i % 8)) % 2 = 1

\* The test of the byte without the mask of the bit.
containsAnyBit(l, i) ==
    IF i \div 8 >= Len(l)
    THEN FALSE
    ELSE l[(i \div 8) + 1] # 0

contains(l, i) ==
    IF i \div 8 >= Len(l)
    THEN FALSE
    ELSE (l[(i \div 8) + 1] \div Pow2(7 - (i % 8))) % 2 = 1

RECURSIVE nextUnspent(_, _)
nextUnspent(l, i) ==
    LET j == i + 1
    IN  IF contains(l, j) \/ j \div 8 >= Len(l) THEN j ELSE nextUnspent(l, j)

(***************************************************************************)
(* Leaf and node indices of the MMR.                                       *)
(***************************************************************************)
nodeIdx(i) == 2 * i - OnesCount64(i)

RECURSIVE heightLoop(_, _)
heightLoop(h, peakSize) ==
    IF peakSize = 0 THEN h
    ELSE heightLoop(IF h >= peakSize THEN h - peakSize ELSE h, peakSize \div 2)

height(i) == heightLoop(i, Pow2(Len64(i)) - 1)

\* The loop adding half the size of a peak, rounded down, for its leaves.
RECURSIVE leafIdxLoopHalf(_, _, _)
leafIdxLoopHalf(leafIndex, numLeft, peakSize) ==
    IF peakSize = 0 THEN leafIndex
    ELSE IF numLeft >= peakSize
         THEN leafIdxLoopHalf(leafIndex + peakSize \div 2, numLeft - peakSize,
                              peakSize \div 2)
         ELSE leafIdxLoopHalf(leafIndex, numLeft, peakSize \div 2)

RECURSIVE leafIdxLoop(_, _, _)
leafIdxLoop(leafIndex, numLeft, peakSize) ==
    IF peakSize = 0 THEN leafIndex
    ELSE IF numLeft >= peakSize
         THEN leafIdxLoop(leafIndex + (peakSize + 1) \div 2, numLeft - peakSize,
                          peakSize \div 2)
         ELSE leafIdxLoop(leafIndex, numLeft, peakSize \div 2)

leafIdx(i) == leafIdxLoop(0, i, Pow2(Len64(i)) - 1)

left(i, h) == i - Pow2(h)

right(i) == i - 1

Nil == <<>>

ZeroHash == <<"zero">>

hash(i, data) == <<"leaf", i, data>>

parentHash(i, l, r) == <<"node", i, l, r>>

\* The loop placing every peak as if no peak came before it.
RECURSIVE calcPeaksLoopNoSum(_, _, _, _)
calcPeaksLoopNoSum(peaks, sumPrevPeaks, nodes, peakSize) ==
    IF peakSize = 0 THEN peaks
    ELSE IF nodes >= peakSize
         THEN calcPeaksLoopNoSum(Append(peaks, peakSize - 1),
                                 sumPrevPeaks + peakSize, nodes - peakSize,
                                 peakSize \div 2)
         ELSE calcPeaksLoopNoSum(peaks, sumPrevPeaks, nodes, peakSize \div 2)

RECURSIVE calcPeaksLoop(_, _, _, _)
calcPeaksLoop(peaks, sumPrevPeaks, nodes, peakSize) ==
    IF peakSize = 0 THEN peaks
    ELSE IF nodes >= peakSize
         THEN calcPeaksLoop(Append(peaks, sumPrevPeaks + peakSize - 1),
                            sumPrevPeaks + peakSize, nodes - peakSize,
                            peakSize \div 2)
         ELSE calcPeaksLoop(peaks, sumPrevPeaks, nodes, peakSize \div 2)

calcPeaks(nodes) == calcPeaksLoop(<<>>, 0, nodes, Pow2(Len64(nodes)) - 1)

(***************************************************************************)
(* verifyMwebUtxosVars and its methods.  v is the record                   *)
(*   [mwebUtxos, leafset, firstLeafIdx, lastLeafIdx, leavesUsed,           *)
(*    hashesUsed, isProofHash]                                             *)
(* and a method that changes v returns the new v beside its result.        *)
(***************************************************************************)
nextLeaf(v) ==
    IF v.leavesUsed = Len(v.mwebUtxos.Utxos)
    THEN [leafIndex |-> 0, hash |-> Nil, v |-> v]
    ELSE [leafIndex |-> v.mwebUtxos.Utxos[v.leavesUsed + 1].LeafIndex,
          hash |-> v.mwebUtxos.Utxos[v.leavesUsed + 1].OutputId,
          v |-> [v EXCEPT !.leavesUsed = @ + 1]]

nextHash(v, n) ==
    IF v.hashesUsed = Len(v.mwebUtxos.ProofHashes)
    THEN [hash |-> Nil, v |-> v]
    ELSE [hash |-> v.mwebUtxos.ProofHashes[v.hashesUsed + 1],
          v |-> [v EXCEPT !.hashesUsed = @ + 1,
                          !.isProofHash = @ \cup {n}]]

\* Lines 211-215: the leaf n, of leaf index li, hashed from nl = v.nextLeaf().
calcLeafHash(n, li, nl) ==
    IF li # nl.leafIndex \/ nl.hash = Nil
    THEN [hash |-> Nil, v |-> nl.v]
    ELSE [hash |-> hash(n, nl.hash), v |-> nl.v]

\* Lines 227-230 and 236: the left hash was nil and l2 = v.nextHash(left).
pulledLeft(n, r, l2) ==
    IF l2.hash = Nil
    THEN [hash |-> Nil, v |-> l2.v]
    ELSE [hash |-> parentHash(n, l2.hash, r.hash), v |-> l2.v]

\* Lines 231-234 and 236: the right hash was nil and r2 = v.nextHash(right).
pulledRight(n, l, r2) ==
    IF r2.hash = Nil
    THEN [hash |-> Nil, v |-> r2.v]
    ELSE [hash |-> parentHash(n, l.hash, r2.hash), v |-> r2.v]

\* Lines 224-236: the node n of height h from the results l and r of its
\* children, r computed after l.
joinChildren(n, h, l, r) ==
    IF l.hash = Nil /\ r.hash = Nil
    THEN [hash |-> Nil, v |-> r.v]
    ELSE IF l.hash = Nil
    THEN pulledLeft(n, r, nextHash(r.v, left(n, h)))
    ELSE IF r.hash = Nil
    THEN pulledRight(n, l, nextHash(r.v, right(n)))
    ELSE [hash |-> parentHash(n, l.hash, r.hash), v |-> r.v]

RECURSIVE calcNodeHash(_, _, _)
RECURSIVE calcRight(_, _, _)

\* Lines 218-223: the right child of node n, after the left child gave l.
calcRight(n, h, l) ==
    joinChildren(n, h, l,
        IF nodeIdx(l.v.lastLeafIdx) <= left(n, h)
        THEN nextHash(l.v, right(n))
        ELSE calcNodeHash(l.v, right(n), h - 1))

\* Lines 202-237.
calcNodeHash(v, n, h) ==
    IF n < nodeIdx(v.firstLeafIdx) \/ n \in v.isProofHash
    THEN nextHash(v, n)
    ELSE IF h = 0
    THEN IF ~contains(v.leafset, leafIdx(n))
         THEN [hash |-> Nil, v |-> v]
         ELSE calcLeafHash(n, leafIdx(n), nextLeaf(v))
    ELSE calcRight(n, h, calcNodeHash(v, left(n, h), h - 1))

(***************************************************************************)
(* verifyMwebUtxos, lines 261-272: the walk over the leaf range.  The      *)
(* result is the last leaf index, or -1 when the walk returns false.       *)
(***************************************************************************)
RECURSIVE leafRangeWalk(_, _, _, _)
leafRangeWalk(l, utxos, i, lastLeafIdx) ==
    IF ~contains(l, lastLeafIdx) THEN -1
    ELSE IF utxos[i + 1].LeafIndex # lastLeafIdx THEN -1
    ELSE IF i = Len(utxos) - 1 THEN lastLeafIdx
    ELSE leafRangeWalk(l, utxos, i + 1, nextUnspent(l, lastLeafIdx))

(***************************************************************************)
(* verifyMwebUtxos, lines 284-303: one pass over the peaks, from peak k    *)
(* on.  The result is [ok, v, peakHashes], ok being FALSE where the code   *)
(* returns false.                                                          *)
(***************************************************************************)
\* Lines 295-299: b = v.nextHash(nextNodeIdx), the peaks to the right bagged.
baggedRight(peakHashes, b) ==
    IF b.hash = Nil
    THEN [ok |-> FALSE, v |-> b.v, peakHashes |-> peakHashes]
    ELSE [ok |-> TRUE, v |-> b.v, peakHashes |-> Append(peakHashes, b.hash)]

RECURSIVE peakLoop(_, _, _, _, _)
RECURSIVE peakStep(_, _, _, _, _)

\* Lines 288-302: c is the hash of peak k, a proof hash where it was nil.
peakStep(peaks, k, peakHashes, nextNodeIdx, c) ==
    IF c.hash = Nil
    THEN [ok |-> FALSE, v |-> c.v, peakHashes |-> peakHashes]
    ELSE IF nodeIdx(c.v.lastLeafIdx) <= peaks[k]
    THEN IF peaks[k] # peaks[Len(peaks)]
         THEN baggedRight(Append(peakHashes, c.hash),
                          nextHash(c.v, nextNodeIdx))
         ELSE [ok |-> TRUE, v |-> c.v,
               peakHashes |-> Append(peakHashes, c.hash)]
    ELSE peakLoop(c.v, peaks, k + 1, Append(peakHashes, c.hash), nextNodeIdx)

\* Lines 285-287: c = v.calcNodeHash(peakNodeIdx, peakNodeIdx.height()).
peakHashOf(peaks, k, c) ==
    IF c.hash = Nil THEN nextHash(c.v, peaks[k]) ELSE c

peakLoop(v, peaks, k, peakHashes, nextNodeIdx) ==
    IF k > Len(peaks)
    THEN [ok |-> TRUE, v |-> v, peakHashes |-> peakHashes]
    ELSE peakStep(peaks, k, peakHashes, nextNodeIdx,
             peakHashOf(peaks, k,
                 calcNodeHash(v, peaks[k], height(peaks[k]))))

\* Lines 304-307: every utxo and every proof hash was used.
allUsed(p) ==
    IF ~p.ok THEN p
    ELSE IF \/ p.v.leavesUsed # Len(p.v.mwebUtxos.Utxos)
            \/ p.v.hashesUsed # Len(p.v.mwebUtxos.ProofHashes)
    THEN [p EXCEPT !.ok = FALSE]
    ELSE p

\* Lines 280-307: one of the two passes; the cursors restart, isProofHash stays.
verifyPass(v, peaks, nextNodeIdx) ==
    allUsed(peakLoop([v EXCEPT !.leavesUsed = 0, !.hashesUsed = 0],
                     peaks, 1, <<>>, nextNodeIdx))

\* The bagging with its loop stopping one peak short of the first.
RECURSIVE bagPeaksButFirst(_, _, _, _)
bagPeaksButFirst(peakHashes, i, baggedPeak, nextNodeIdx) ==
    IF i <= 1 THEN baggedPeak
    ELSE bagPeaksButFirst(peakHashes, i - 1,
             parentHash(nextNodeIdx, peakHashes[i], baggedPeak), nextNodeIdx)

\* Lines 310-313: the peaks bagged right to left, from peak i down.
RECURSIVE bagPeaks(_, _, _, _)
bagPeaks(peakHashes, i, baggedPeak, nextNodeIdx) ==
    IF i < 1 THEN baggedPeak
    ELSE bagPeaks(peakHashes, i - 1,
                  parentHash(nextNodeIdx, peakHashes[i], baggedPeak), nextNodeIdx)

\* Lines 310-314, after the second pass gave p2.
rootMatches(mwebHeader, nextNodeIdx, p2) ==
    IF ~p2.ok THEN FALSE
    ELSE bagPeaks(p2.peakHashes, Len(p2.peakHashes) - 1,
                  p2.peakHashes[Len(p2.peakHashes)], nextNodeIdx)
             = mwebHeader.OutputRoot

\* Lines 279-308: the second pass, after the first gave p1.
secondPass(mwebHeader, peaks, nextNodeIdx, p1) ==
    IF ~p1.ok THEN FALSE
    ELSE rootMatches(mwebHeader, nextNodeIdx,
                     verifyPass(p1.v, peaks, nextNodeIdx))

\* Lines 253-314, after the walk over the leaf range gave lastLeaf.
verifyProof(mwebHeader, mwebLeafset, mwebUtxos, lastLeaf, nextNodeIdx) ==
    IF lastLeaf = -1 THEN FALSE
    ELSE secondPass(mwebHeader, calcPeaks(nextNodeIdx), nextNodeIdx,
             verifyPass([mwebUtxos    |-> mwebUtxos,
                         leafset      |-> mwebLeafset,
                         firstLeafIdx |-> mwebUtxos.StartIndex,
                         lastLeafIdx  |-> lastLeaf,
                         leavesUsed   |-> 0,
                         hashesUsed   |-> 0,
                         isProofHash  |-> {}],
                        calcPeaks(nextNodeIdx), nextNodeIdx))

verifyMwebUtxos(mwebHeader, mwebLeafset, mwebUtxos) ==
    IF /\ mwebUtxos.StartIndex = 0
       /\ Len(mwebUtxos.Utxos) = 0
       /\ Len(mwebUtxos.ProofHashes) = 0
       /\ mwebHeader.OutputRoot = ZeroHash
       /\ mwebHeader.OutputMMRSize = 0
    THEN TRUE
    ELSE IF Len(mwebUtxos.Utxos) = 0 \/ mwebHeader.OutputMMRSize = 0
    THEN FALSE
    ELSE verifyProof(mwebHeader, mwebLeafset, mwebUtxos,
             leafRangeWalk(mwebLeafset, mwebUtxos.Utxos, 0,
                           mwebUtxos.StartIndex),
             nodeIdx(mwebHeader.OutputMMRSize))

(***************************************************************************)
(* The honest peer.  The MMR holds leaf i with output id <<"id", i>>; a    *)
(* peer that answers for leafset l sends the first count unspent leaves    *)
(* from start with the hashes of the maximal subtrees that hold no leaf of *)
(* the batch, left to right, and the bagged hash of the peaks right of the *)
(* batch.                                                                  *)
(***************************************************************************)
OutputIdOf(i) == <<"id", i>>

RECURSIVE TrueHash(_, _)
TrueHash(n, h) ==
    IF h = 0 THEN hash(n, OutputIdOf(leafIdx(n)))
    ELSE parentHash(n, TrueHash(left(n, h), h - 1), TrueHash(right(n), h - 1))

\* The hashes of peaks k..Len(peaks) bagged into one.
RECURSIVE TrueBag(_, _, _)
TrueBag(peaks, k, nextNodeIdx) ==
    IF k = Len(peaks) THEN TrueHash(peaks[k], height(peaks[k]))
    ELSE parentHash(nextNodeIdx, TrueHash(peaks[k], height(peaks[k])),
                    TrueBag(peaks, k + 1, nextNodeIdx))

OutputRootOf(size) ==
    IF size = 0 THEN ZeroHash
    ELSE TrueBag(calcPeaks(nodeIdx(size)), 1, nodeIdx(size))

\* The leaves below node n of height h.
SubtreeLeaves(n, h) ==
    LET lo == leafIdx(n - Pow2(h + 1) + 2)
    IN  lo .. (lo + Pow2(h) - 1)

RECURSIVE SubtreeProof(_, _, _)
SubtreeProof(n, h, batch) ==
    IF SubtreeLeaves(n, h) \cap batch = {} THEN <<TrueHash(n, h)>>
    ELSE IF h = 0 THEN <<>>
    ELSE SubtreeProof(left(n, h), h - 1, batch)
             \o SubtreeProof(right(n), h - 1, batch)

RECURSIVE PeaksProof(_, _, _, _, _)
PeaksProof(peaks, k, batch, lastLeaf, nextNodeIdx) ==
    IF k > Len(peaks) THEN <<>>
    ELSE LET p == peaks[k]
             here == SubtreeProof(p, height(p), batch)
         IN  IF \E i \in SubtreeLeaves(p, height(p)) : i >= lastLeaf
             THEN IF k < Len(peaks)
                  THEN Append(here, TrueBag(peaks, k + 1, nextNodeIdx))
                  ELSE here
             ELSE here \o PeaksProof(peaks, k + 1, batch, lastLeaf, nextNodeIdx)

\* The first count unspent leaves of l from start on, below size.
RECURSIVE UnspentFrom(_, _, _, _)
UnspentFrom(l, i, count, size) ==
    IF count = 0 \/ i >= size THEN <<>>
    ELSE IF contains(l, i)
         THEN <<i>> \o UnspentFrom(l, i + 1, count - 1, size)
         ELSE UnspentFrom(l, i + 1, count, size)

SeqRange(s) == {s[k] : k \in 1 .. Len(s)}

HonestUtxos(leaves) ==
    [k \in 1 .. Len(leaves) |->
        [LeafIndex |-> leaves[k], OutputId |-> OutputIdOf(leaves[k])]]

HonestProof(size, leaves) ==
    IF leaves = <<>> \/ size = 0 THEN <<>>
    ELSE PeaksProof(calcPeaks(nodeIdx(size)), 1, SeqRange(leaves),
                    leaves[Len(leaves)], nodeIdx(size))

HonestMsg(blockHash, size, l, start, count) ==
    LET leaves == UnspentFrom(l, start, count, size)
    IN  [kind         |-> "mwebutxos",
         BlockHash    |-> blockHash,
         StartIndex   |-> start,
         OutputFormat |-> "compact",
         Utxos        |-> HonestUtxos(leaves),
         ProofHashes  |-> HonestProof(size, leaves)]

(***************************************************************************)
(* Bounds of the model.                                                    *)
(***************************************************************************)
\* wire.MaxMwebUtxosPerQuery, scaled down so that one byte of leafset
\* already needs several queries.
MaxMwebUtxosPerQuery == 2

\* The number of chain tips getMwebUtxos is run for in one behaviour.
MaxRuns == 2

\* banman.InvalidMwebUtxos
InvalidMwebUtxos == 21

InvalidMwebHeader == 20

(***************************************************************************)
(* The leafset differ of getMwebUtxos, lines 340-377.  d is the record     *)
(* [addLeaf, addedLeaves, removedLeaves]; a span is [start, count].        *)
(***************************************************************************)
RECURSIVE skipCommonPrefix(_, _, _)
skipCommonPrefix(oldLeafset, newLeafset, index) ==
    IF /\ index < Len(oldLeafset)
       /\ index < Len(newLeafset)
       /\ oldLeafset[index + 1] = newLeafset[index + 1]
    THEN skipCommonPrefix(oldLeafset, newLeafset, index + 1)
    ELSE index

\* The span appended and not cleared.
addLeafSpanKept(d) ==
    IF d.addLeaf.count > 0
    THEN [d EXCEPT !.addedLeaves = Append(@, d.addLeaf)]
    ELSE d

\* Lines 357-362.
addLeafSpan(d) ==
    IF d.addLeaf.count > 0
    THEN [d EXCEPT !.addedLeaves = Append(@, d.addLeaf),
                   !.addLeaf = [start |-> 0, count |-> 0]]
    ELSE d

RECURSIVE diffLoop(_, _, _, _, _, _)
diffLoop(oldLeafset, oldNumLeaves, newLeafset, newNumLeaves, index, d) ==
    IF ~(index < oldNumLeaves \/ index < newNumLeaves) THEN d
    ELSE IF contains(oldLeafset, index)
    THEN LET d1 == addLeafSpan(d)
         IN  diffLoop(oldLeafset, oldNumLeaves, newLeafset, newNumLeaves,
                      index + 1,
                      IF ~contains(newLeafset, index)
                      THEN [d1 EXCEPT !.removedLeaves = Append(@, index)]
                      ELSE d1)
    ELSE IF contains(newLeafset, index)
    THEN LET d1 == [d EXCEPT !.addLeaf =
                        [start |-> IF d.addLeaf.count = 0 THEN index
                                   ELSE d.addLeaf.start,
                         count |-> (d.addLeaf.count + 1) % 65536]]
         IN  diffLoop(oldLeafset, oldNumLeaves, newLeafset, newNumLeaves,
                      index + 1,
                      IF d1.addLeaf.count = MaxMwebUtxosPerQuery
                      THEN addLeafSpan(d1) ELSE d1)
    ELSE diffLoop(oldLeafset, oldNumLeaves, newLeafset, newNumLeaves,
                  index + 1, d)

\* The differ with its loop running up to the new leaf count only.
diffToNewCount(oldLeafset, oldNumLeaves, newLeafset, newNumLeaves) ==
    addLeafSpan(
        diffLoop(oldLeafset, 0, newLeafset, newNumLeaves,
                 8 * skipCommonPrefix(oldLeafset, newLeafset, 0),
                 [addLeaf |-> [start |-> 0, count |-> 0],
                  addedLeaves |-> <<>>, removedLeaves |-> <<>>]))

diffLeafsets(oldLeafset, oldNumLeaves, newLeafset, newNumLeaves) ==
    addLeafSpan(
        diffLoop(oldLeafset, oldNumLeaves, newLeafset, newNumLeaves,
                 8 * skipCommonPrefix(oldLeafset, newLeafset, 0),
                 [addLeaf |-> [start |-> 0, count |-> 0],
                  addedLeaves |-> <<>>, removedLeaves |-> <<>>]))

\* Lines 379-384: one getmwebutxos request per span.
NewMsgGetMwebUtxos(blockHash, start, count, format) ==
    [kind |-> "getmwebutxos", BlockHash |-> blockHash, StartIndex |-> start,
     NumRequested |-> count, OutputFormat |-> format]

queryMsgsOf(addedLeaves, blockHash) ==
    [k \in 1 .. Len(addedLeaves) |->
        NewMsgGetMwebUtxos(blockHash, addedLeaves[k].start,
                           addedLeaves[k].count, "compact")]

(***************************************************************************)
(* The state of the node.                                                  *)
(***************************************************************************)
VARIABLES
    dbLeafset,          \* the coin store: the persisted leafset,
    dbNumLeaves,        \*   its leaf count,
    dbCoins,            \*   and the leaf indices of the persisted utxos
    quit,               \* b.quit is closed
    mwebUtxosCallbacks, \* b.mwebUtxosCallbacks, in registration order
    mtx,                \* the holder of b.mwebUtxosCallbacksMtx
    pc,                 \* where getMwebUtxos stands
    q,                  \* the mwebUtxosQuery of the sync: header, leafset, msgs
    sync,               \* the locals of getMwebUtxos: oldLeafset,
                        \*   oldNumLeaves, newNumLeaves, addedLeaves,
                        \*   removedLeaves, i, queryResponses
    utxosChan,          \* the messages buffered on utxosChan, oldest first
    errChan,            \* the error channel Query returned: "none" before
                        \*   the call, "empty", the error on it, "drained"
    peerMsgs,           \* the messages peers may answer this sync with
    accepted,           \* which of them verifyMwebUtxos accepts for q
    workers,            \* the dispatcher's calls of handleResponse in progress
    lastReturn,         \* the last return of handleResponse, with its call
    putCoinsLog,        \* the PutCoins calls of this sync, in order
    callbackLog,        \* the subscriber calls of this sync, in order
    purgeLog,           \* the PutLeafSetAndPurge calls of this sync
    runs,               \* the syncs started so far
    notify,             \* where notifyAddedMwebUtxos stands, and the error,
                        \*   the leaves asked of FetchLeaves and the
                        \*   subscriber calls of its last run
    storeErr,           \* the coin store call whose error made the process
                        \*   panic
    banned,             \* the BanPeer calls made: peer and reason
    vIn,                \* a call of verifyMwebUtxos on its own: the header,
                        \*   the leafset and the message it is given,
    vOut,               \*   and what it returned
    hIn,                \* a call of verifyMwebHeader on its own: what it is
                        \*   given and what the libraries it calls yield,
    hOut,               \*   and how it ended
    mIn,                \* a call of the index arithmetic on its own: the
                        \*   leaf index or leaf count it starts from,
    mOut,               \*   and what each function returned
    stray               \* a response was put on utxosChan that no call of
                        \*   handleResponse sent

vars == <<dbLeafset, dbNumLeaves, dbCoins, quit, mwebUtxosCallbacks, mtx, pc,
          q, sync, utxosChan, errChan, peerMsgs, accepted, workers,
          lastReturn, putCoinsLog, callbackLog, purgeLog, runs, notify,
          storeErr, banned, vIn, vOut, hIn, hOut, mIn, mOut, stray>>

verifyVars == <<vIn, vOut, hIn, hOut, mIn, mOut, stray>>

storeVars == <<dbLeafset, dbNumLeaves, dbCoins>>

logVars == <<putCoinsLog, callbackLog, purgeLog>>

queryVars == <<q, peerMsgs, accepted>>

Workers == {"w1", "w2"}

Peers == {"peerA", "peerB"}

Subscribers == {"cb1"}

\* The chain tips a sync may be run for: the MMR size of the header and the
\* leafset that came with it.
Tips ==
    { [size |-> 0, leafset |-> <<>>],
      [size |-> 3, leafset |-> <<160>>],
      [size |-> 5, leafset |-> <<184>>] }

BlockHashOf(tip) == <<"block", tip.size>>

mwebHeaderOf(tip) ==
    [OutputRoot |-> OutputRootOf(tip.size), OutputMMRSize |-> tip.size]

Progress(finished, progressed) ==
    [Finished |-> finished, Progressed |-> progressed]

NoQuery == [mwebHeader |-> mwebHeaderOf([size |-> 0]), leafset |-> <<>>,
            msgs |-> <<>>, blockHash |-> <<"block", 0>>]

NoSync == [oldLeafset |-> <<>>, oldNumLeaves |-> 0, newNumLeaves |-> 0,
           addedLeaves |-> <<>>, removedLeaves |-> <<>>, i |-> 0,
           queryResponses |-> <<>>]

NoReturn == [req |-> [kind |-> "none"], resp |-> 0,
             peerAddr |-> "none", progress |-> Progress(FALSE, FALSE),
             banPeer |-> <<>>, sent |-> FALSE]

Idle == [pc |-> "idle", req |-> [kind |-> "none"], resp |-> 0,
         peerAddr |-> "none"]

NoInput == [mwebHeader |-> [OutputRoot |-> ZeroHash, OutputMMRSize |-> 0],
            leafset |-> <<>>, mwebUtxos |-> [kind |-> "none"]]

NoResult == [returned |-> FALSE, ok |-> FALSE]

NoHeaderInput == [mwebHeader |-> NilMsg, mwebLeafset |-> NilMsg]

NoHeaderResult == [returned |-> FALSE, result |-> "none"]

NoHeaderCall == hIn = NoHeaderInput /\ hOut = NoHeaderResult

NoIndexResult == [mapped |-> FALSE, node |-> 0, leaf |-> 0, height |-> 0,
                  peaked |-> FALSE, peaks |-> <<>>]

NoIndexCall == mIn = 0 /\ mOut = NoIndexResult

NoStray == stray = FALSE

NoNotify == [pc |-> "idle", leafSet |-> <<>>, newLeafset |-> <<>>,
             newNumLeaves |-> 0, err |-> "none", leaves |-> <<>>,
             calls |-> <<>>]

(***************************************************************************)
(* What the peers may send in answer to the requests msgs: for each        *)
(* request the honest answer, for the first request an answer with a wrong *)
(* proof hash, one with a wrong output id, one for another block, one in   *)
(* another format, one from another start index and one with another       *)
(* number of utxos, and a message of another kind.                         *)
(***************************************************************************)
BogusHash == <<"id", -1>>

WrongProof(m) ==
    [m EXCEPT !.ProofHashes =
        IF @ = <<>> THEN <<BogusHash>> ELSE [@ EXCEPT ![1] = BogusHash]]

WrongOutputId(m) == [m EXCEPT !.Utxos[1].OutputId = BogusHash]

OtherMsg == [kind |-> "other"]

PeerMsgsFor(tip, msgs) ==
    LET honest(k) == HonestMsg(msgs[k].BlockHash, tip.size, tip.leafset,
                               msgs[k].StartIndex, msgs[k].NumRequested)
        h1 == honest(1)
    IN  [k \in 1 .. Len(msgs) |-> honest(k)]
        \o << WrongProof(h1),
              WrongOutputId(h1),
              [h1 EXCEPT !.BlockHash = <<"block", -1>>],
              [h1 EXCEPT !.OutputFormat = "full"],
              [h1 EXCEPT !.StartIndex = @ + 1],
              HonestMsg(msgs[1].BlockHash, tip.size, tip.leafset,
                        msgs[1].StartIndex,
                        IF msgs[1].NumRequested > 1
                        THEN msgs[1].NumRequested - 1
                        ELSE msgs[1].NumRequested + 1),
              OtherMsg >>

InitNode ==
    /\ dbLeafset = <<>>
    /\ dbNumLeaves = 0
    /\ dbCoins = {}
    /\ quit = FALSE
    /\ mwebUtxosCallbacks = <<>>
    /\ mtx = "free"
    /\ pc = "idle"
    /\ q = NoQuery
    /\ sync = NoSync
    /\ utxosChan = <<>>
    /\ errChan = "none"
    /\ peerMsgs = <<>>
    /\ accepted = {}
    /\ workers = [w \in Workers |-> Idle]
    /\ lastReturn = NoReturn
    /\ putCoinsLog = <<>>
    /\ callbackLog = <<>>
    /\ purgeLog = <<>>
    /\ runs = 0
    /\ notify = NoNotify
    /\ storeErr = "none"
    /\ banned = {}

Init ==
    /\ InitNode
    /\ vIn = NoInput
    /\ vOut = NoResult
    /\ NoHeaderCall
    /\ NoIndexCall
    /\ NoStray

(***************************************************************************)
(* The coin store.  A call either fails, and then changes nothing, or does *)
(* what it is for.                                                         *)
(***************************************************************************)
\* The leaf indices of the utxos of messages ptrs of peerMsgs.
LeavesOf(ptrs) ==
    UNION {{peerMsgs[ptrs[k]].Utxos[j].LeafIndex :
                j \in 1 .. Len(peerMsgs[ptrs[k]].Utxos)} : k \in 1 .. Len(ptrs)}

(***************************************************************************)
(* purgeSpentMwebTxos, lines 522-534, as the last step of getMwebUtxos.    *)
(* coins is what PutCoins has left in the store in this step and fails is  *)
(* whether PutLeafSetAndPurge returns an error, on which the process       *)
(* panics.                                                                 *)
(***************************************************************************)
\* The purge with its error logged instead of raised.
purgeErrorLogged(newLeafset, newNumLeaves, removedLeaves, coins, fails) ==
    /\ pc' = "done"
    /\ dbCoins' = IF fails THEN coins ELSE coins \ SeqRange(removedLeaves)
    /\ dbLeafset' = IF fails THEN dbLeafset ELSE newLeafset
    /\ dbNumLeaves' = IF fails THEN dbNumLeaves ELSE newNumLeaves
    /\ storeErr' = IF fails THEN "PutLeafSetAndPurge" ELSE storeErr
    /\ purgeLog' = IF fails THEN <<>>
                   ELSE <<[leafset |-> newLeafset, count |-> newNumLeaves,
                           removed |-> removedLeaves]>>

\* The purge installing the capacity of the leafset for the leaf count.
purgeCountsBits(newLeafset, newNumLeaves, removedLeaves, coins, fails) ==
    IF fails
    THEN /\ pc' = "halted"
         /\ storeErr' = "PutLeafSetAndPurge"
         /\ dbCoins' = coins
         /\ purgeLog' = <<>>
         /\ UNCHANGED <<dbLeafset, dbNumLeaves>>
    ELSE /\ pc' = "done"
         /\ UNCHANGED storeErr
         /\ dbLeafset' = newLeafset
         /\ dbNumLeaves' = 8 * Len(newLeafset)
         /\ dbCoins' = coins \ SeqRange(removedLeaves)
         /\ purgeLog' = <<[leafset |-> newLeafset,
                           count |-> 8 * Len(newLeafset),
                           removed |-> removedLeaves]>>

purgeSpentMwebTxos(newLeafset, newNumLeaves, removedLeaves, coins, fails) ==
    IF fails
    THEN /\ pc' = "halted"
         /\ storeErr' = "PutLeafSetAndPurge"
         /\ dbCoins' = coins
         /\ purgeLog' = <<>>
         /\ UNCHANGED <<dbLeafset, dbNumLeaves>>
    ELSE /\ pc' = "done"
         /\ UNCHANGED storeErr
         /\ dbLeafset' = newLeafset
         /\ dbNumLeaves' = newNumLeaves
         /\ dbCoins' = coins \ SeqRange(removedLeaves)
         /\ purgeLog' = <<[leafset |-> newLeafset, count |-> newNumLeaves,
                           removed |-> removedLeaves]>>

(***************************************************************************)
(* getMwebUtxos, lines 327-416: the plan and the dispatch, for the header  *)
(* and leafset of tip.  getFails is whether GetLeafSet returns an error.   *)
(* The outer loop starts a sync when none runs, before shutdown, and the   *)
(* dispatcher has then returned from the handlers of the sync before.      *)
(***************************************************************************)
getMwebUtxos(tip, getFails, purgeFails) ==
    /\ pc \in {"idle", "done", "aborted"}
    /\ ~quit
    /\ \A w \in Workers : workers[w].pc = "idle"
    /\ runs' = runs + 1
    /\ putCoinsLog' = <<>>
    /\ callbackLog' = <<>>
    /\ lastReturn' = NoReturn
    /\ IF getFails
       THEN /\ pc' = "halted"
            /\ storeErr' = "GetLeafSet"
            /\ purgeLog' = <<>>
            /\ UNCHANGED <<storeVars, queryVars, sync, utxosChan, errChan>>
       ELSE LET d == diffLeafsets(dbLeafset, dbNumLeaves, tip.leafset, tip.size)
                queryMsgs == queryMsgsOf(d.addedLeaves, BlockHashOf(tip))
            IN  /\ sync' = [oldLeafset |-> dbLeafset,
                            oldNumLeaves |-> dbNumLeaves,
                            newNumLeaves |-> tip.size,
                            addedLeaves |-> d.addedLeaves,
                            removedLeaves |-> d.removedLeaves,
                            i |-> 0,
                            queryResponses |-> <<>>]
                /\ utxosChan' = <<>>
                /\ IF Len(queryMsgs) = 0
                   THEN /\ purgeSpentMwebTxos(tip.leafset, tip.size,
                                d.removedLeaves, dbCoins, purgeFails)
                        /\ errChan' = "none"
                        /\ UNCHANGED queryVars
                   ELSE \E msgs \in {PeerMsgsFor(tip, queryMsgs)} :
                        /\ pc' = "lock"
                        /\ q' = [mwebHeader |-> mwebHeaderOf(tip),
                                 leafset |-> tip.leafset,
                                 msgs |-> queryMsgs,
                                 blockHash |-> BlockHashOf(tip)]
                        /\ errChan' = "empty"
                        /\ peerMsgs' = msgs
                        /\ accepted' =
                               {p \in 1 .. Len(msgs) :
                                   /\ msgs[p].kind = "mwebutxos"
                                   /\ verifyMwebUtxos(mwebHeaderOf(tip),
                                                      tip.leafset, msgs[p])}
                        /\ purgeLog' = <<>>
                        /\ UNCHANGED <<storeVars, storeErr>>
    /\ UNCHANGED verifyVars
    /\ UNCHANGED <<quit, mwebUtxosCallbacks, mtx, workers, notify, banned>>

\* The dispatch loop entered without taking b.mwebUtxosCallbacksMtx.
getMwebUtxosNoLock ==
    /\ pc = "lock"
    /\ pc' = "wait"
    /\ UNCHANGED verifyVars
    /\ UNCHANGED <<storeVars, quit, mwebUtxosCallbacks, mtx, queryVars, sync,
                   utxosChan, errChan, workers, lastReturn, logVars, runs,
                   notify, storeErr, banned>>

\* Line 418: b.mwebUtxosCallbacksMtx.Lock()
getMwebUtxosLock ==
    /\ pc = "lock"
    /\ mtx = "free"
    /\ mtx' = "sync"
    /\ pc' = "wait"
    /\ UNCHANGED verifyVars
    /\ UNCHANGED <<storeVars, quit, mwebUtxosCallbacks, queryVars, sync,
                   utxosChan, errChan, workers, lastReturn, logVars, runs,
                   notify, storeErr, banned>>

(***************************************************************************)
(* Lines 478-514: the messages written from the cache, in order, from span *)
(* i on.  The result is the new i, the new cache and the messages written. *)
(***************************************************************************)
\* The write of whatever the cache holds, the lowest span first, be it the
\* span awaited or not.
writeArrived(addedLeaves, i, queryResponses, written) ==
    IF i < Len(addedLeaves) /\ DOMAIN queryResponses # {}
    THEN LET k == CHOOSE x \in DOMAIN queryResponses :
                      \A y \in DOMAIN queryResponses : x <= y
         IN  [i |-> i + 1,
              queryResponses |->
                  [j \in DOMAIN queryResponses \ {k} |-> queryResponses[j]],
              written |-> Append(written, queryResponses[k])]
    ELSE [i |-> i, queryResponses |-> queryResponses, written |-> written]

RECURSIVE writeCached(_, _, _, _)
writeCached(addedLeaves, i, queryResponses, written) ==
    IF i < Len(addedLeaves)
    THEN LET curIndex == addedLeaves[i + 1].start
         IN  IF curIndex \notin DOMAIN queryResponses
             THEN [i |-> i, queryResponses |-> queryResponses,
                   written |-> written]
             ELSE writeCached(addedLeaves, i + 1,
                      [k \in DOMAIN queryResponses \ {curIndex} |->
                          queryResponses[k]],
                      Append(written, queryResponses[curIndex]))
    ELSE [i |-> i, queryResponses |-> queryResponses, written |-> written]

\* Lines 506-508: every subscriber is called with each message written.
callbacksFor(written) ==
    [k \in 1 .. (Len(written) * Len(mwebUtxosCallbacks)) |->
        [cb      |-> mwebUtxosCallbacks[((k - 1) % Len(mwebUtxosCallbacks)) + 1],
         leafset |-> q.leafset,
         r       |-> written[((k - 1) \div Len(mwebUtxosCallbacks)) + 1]]]

\* The loop condition with the last span forgotten.
moreSpansButLast(i, addedLeaves) == i < Len(addedLeaves) - 1

\* Line 423: the loop goes on while i < len(addedLeaves).
moreSpans(i, addedLeaves) == i < Len(addedLeaves)

(***************************************************************************)
(* Lines 424-520, the case r = <-utxosChan of the select and what follows  *)
(* it up to the next select or the return.  failAt is the coin store call  *)
(* of this step that returns an error (0: none does): the failAt-th        *)
(* PutCoins or, past the last of them, PutLeafSetAndPurge.                 *)
(***************************************************************************)
getMwebUtxosRecv(failAt) ==
    /\ pc = "wait"
    /\ utxosChan # <<>>
    /\ utxosChan' = Tail(utxosChan)
    /\ LET r == Head(utxosChan)
           utxos == peerMsgs[r].Utxos
           startIndex == utxos[1].LeafIndex
           lastIndex == utxos[Len(utxos)].LeafIndex
           curIndex == sync.addedLeaves[sync.i + 1].start
       IN  IF lastIndex < curIndex
           THEN /\ failAt = 0
                /\ UNCHANGED <<storeVars, pc, mtx, sync, logVars, storeErr>>
           ELSE LET cache == [k \in DOMAIN sync.queryResponses \cup {startIndex}
                                 |-> IF k = startIndex THEN r
                                     ELSE sync.queryResponses[k]]
                    c == writeCached(sync.addedLeaves, sync.i, cache, <<>>)
                    n == Len(c.written)
                    ok == IF failAt \in 1 .. n
                          THEN SubSeq(c.written, 1, failAt - 1)
                          ELSE c.written
                    coins == dbCoins \cup LeavesOf(ok)
               IN  /\ failAt \in 0 .. (n + 1)
                   /\ putCoinsLog' = putCoinsLog \o ok
                   /\ callbackLog' = callbackLog \o callbacksFor(ok)
                   /\ IF failAt \in 1 .. n
                      THEN /\ pc' = "halted"
                           /\ storeErr' = "PutCoins"
                           /\ dbCoins' = coins
                           /\ UNCHANGED <<dbLeafset, dbNumLeaves, mtx, sync,
                                          purgeLog>>
                      ELSE IF ~moreSpans(c.i, sync.addedLeaves)
                      THEN /\ purgeSpentMwebTxos(q.leafset,
                                  q.mwebHeader.OutputMMRSize,
                                  sync.removedLeaves, coins, failAt = n + 1)
                           /\ mtx' = IF failAt = n + 1 THEN mtx ELSE "free"
                           /\ sync' = [sync EXCEPT !.i = c.i,
                                          !.queryResponses = c.queryResponses]
                      ELSE /\ failAt = 0
                           /\ dbCoins' = coins
                           /\ sync' = [sync EXCEPT !.i = c.i,
                                          !.queryResponses = c.queryResponses]
                           /\ UNCHANGED <<dbLeafset, dbNumLeaves, pc, mtx,
                                          purgeLog, storeErr>>
    /\ UNCHANGED verifyVars
    /\ UNCHANGED <<quit, mwebUtxosCallbacks, queryVars, errChan, workers,
                   lastReturn, runs, notify, banned>>

\* The case err := <-errChan returning whatever the error is, nil included.
getMwebUtxosErrAnyReturns ==
    /\ pc = "wait"
    /\ errChan \in {"nil", "ErrWorkManagerShuttingDown", "error"}
    /\ errChan' = "drained"
    /\ pc' = "aborted"
    /\ mtx' = "free"
    /\ UNCHANGED verifyVars
    /\ UNCHANGED <<storeVars, quit, mwebUtxosCallbacks, queryVars, sync,
                   utxosChan, workers, lastReturn, logVars, runs, notify,
                   storeErr, banned>>

\* Lines 428-441: the case err := <-errChan of the select.
getMwebUtxosErr ==
    /\ pc = "wait"
    /\ errChan \in {"nil", "ErrWorkManagerShuttingDown", "error"}
    /\ errChan' = "drained"
    /\ IF errChan = "nil"
       THEN UNCHANGED <<pc, mtx>>
       ELSE pc' = "aborted" /\ mtx' = "free"
    /\ UNCHANGED verifyVars
    /\ UNCHANGED <<storeVars, quit, mwebUtxosCallbacks, queryVars, sync,
                   utxosChan, workers, lastReturn, logVars, runs, notify,
                   storeErr, banned>>

\* The case <-b.quit leaving the loop instead of the function: the purge
\* of line 519 follows.
getMwebUtxosQuitBreak ==
    /\ pc = "wait"
    /\ quit
    /\ purgeSpentMwebTxos(q.leafset, q.mwebHeader.OutputMMRSize,
                          sync.removedLeaves, dbCoins, FALSE)
    /\ mtx' = "free"
    /\ UNCHANGED verifyVars
    /\ UNCHANGED <<quit, mwebUtxosCallbacks, queryVars, sync, utxosChan,
                   errChan, workers, lastReturn, putCoinsLog, callbackLog,
                   runs, notify, banned>>

\* The select without its case <-b.quit.
getMwebUtxosQuitUnseen ==
    /\ pc = "wait"
    /\ quit
    /\ UNCHANGED vars

\* Lines 443-444: the case <-b.quit of the select.
getMwebUtxosQuit ==
    /\ pc = "wait"
    /\ quit
    /\ pc' = "aborted"
    /\ mtx' = "free"
    /\ UNCHANGED verifyVars
    /\ UNCHANGED <<storeVars, quit, mwebUtxosCallbacks, queryVars, sync,
                   utxosChan, errChan, workers, lastReturn, logVars, runs,
                   notify, storeErr, banned>>

(***************************************************************************)
(* handleResponse, lines 550-621, up to the select of line 608.  resp is   *)
(* the place in peerMsgs of the message the peer peerAddr sent.  The       *)
(* dispatcher calls the handler between the Query call and the return of   *)
(* getMwebUtxos.                                                           *)
(***************************************************************************)
\* The match without the comparison of the start indices.
respMatchesButStart(query, r) ==
    /\ query.BlockHash = r.BlockHash
    /\ query.OutputFormat = r.OutputFormat
    /\ query.NumRequested = Len(r.Utxos) % 65536

\* The match without the comparison of the number of utxos.
respMatchesButCount(query, r) ==
    /\ query.BlockHash = r.BlockHash
    /\ query.StartIndex = r.StartIndex
    /\ query.OutputFormat = r.OutputFormat

\* Lines 573-581.
respMatches(query, r) ==
    /\ query.BlockHash = r.BlockHash
    /\ query.StartIndex = r.StartIndex
    /\ query.OutputFormat = r.OutputFormat
    /\ query.NumRequested = Len(r.Utxos) % 65536

\* The return of a call: what it returned, the BanPeer calls it made and
\* whether it sent on utxosChan are recorded in lastReturn when observe is set.
returns(w, req, resp, peerAddr, progress, bans, sent, observe) ==
    /\ lastReturn' = IF observe
                     THEN [req |-> req, resp |-> resp,
                           peerAddr |-> peerAddr, progress |-> progress,
                           banPeer |-> bans, sent |-> sent]
                     ELSE lastReturn
    /\ banned' = banned \cup SeqRange(bans)
    /\ workers' = [workers EXCEPT ![w] = Idle]

\* The verdict without the verifier.
verifiedUnseen(resp) == TRUE

\* Line 583: verifyMwebUtxos(m.mwebHeader, m.leafset, r), as getMwebUtxos
\* worked it out for the messages of the sync.
verified(resp) == resp \in accepted

\* The ban with the reason of a bad header.
banPeerForHeader(peerAddr) ==
    <<[peerAddr |-> peerAddr, reason |-> InvalidMwebHeader]>>

\* Lines 590-592: BanPeer(peerAddr, banman.InvalidMwebUtxos)
banPeer(peerAddr) == <<[peerAddr |-> peerAddr, reason |-> InvalidMwebUtxos]>>

handleResponse(w, req, resp, peerAddr, observe) ==
    /\ pc \in {"lock", "wait"}
    /\ workers[w].pc = "idle"
    /\ LET r == peerMsgs[resp]
       IN  IF r.kind # "mwebutxos"
           THEN returns(w, req, resp, peerAddr, Progress(FALSE, FALSE),
                        <<>>, FALSE, observe)
           ELSE IF req.kind # "getmwebutxos"
           THEN returns(w, req, resp, peerAddr, Progress(FALSE, FALSE),
                        <<>>, FALSE, observe)
           ELSE IF ~respMatches(req, r)
           THEN returns(w, req, resp, peerAddr, Progress(FALSE, FALSE),
                        <<>>, FALSE, observe)
           ELSE IF ~verified(resp)
           THEN returns(w, req, resp, peerAddr, Progress(FALSE, FALSE),
                        banPeer(peerAddr), FALSE, observe)
           ELSE /\ workers' = [workers EXCEPT ![w] =
                                  [pc |-> "send", req |-> req, resp |-> resp,
                                   peerAddr |-> peerAddr]]
                /\ UNCHANGED <<lastReturn, banned>>
    /\ UNCHANGED verifyVars
    /\ UNCHANGED <<storeVars, quit, mwebUtxosCallbacks, mtx, pc, queryVars,
                   sync, utxosChan, errChan, logVars, runs, notify, storeErr>>

\* Lines 608-620: the case m.utxosChan <- r of the select; the channel has
\* room for len(queryMsgs) messages.
handleResponseSend(w, observe) ==
    /\ pc # "halted"
    /\ workers[w].pc = "send"
    /\ Len(utxosChan) < Len(q.msgs)
    /\ utxosChan' = Append(utxosChan, workers[w].resp)
    /\ returns(w, workers[w].req, workers[w].resp, workers[w].peerAddr,
               Progress(TRUE, TRUE), <<>>, TRUE, observe)
    /\ UNCHANGED verifyVars
    /\ UNCHANGED <<storeVars, quit, mwebUtxosCallbacks, mtx, pc, queryVars,
                   sync, errChan, logVars, runs, notify, storeErr>>

\* The case <-m.blockMgr.quit falling through to the return of line 617.
handleResponseQuitFinished(w, observe) ==
    /\ pc # "halted"
    /\ workers[w].pc = "send"
    /\ quit
    /\ returns(w, workers[w].req, workers[w].resp, workers[w].peerAddr,
               Progress(TRUE, TRUE), <<>>, FALSE, observe)
    /\ UNCHANGED verifyVars
    /\ UNCHANGED <<storeVars, quit, mwebUtxosCallbacks, mtx, pc, queryVars,
                   sync, utxosChan, errChan, logVars, runs, notify, storeErr>>

\* Lines 610-614: the case <-m.blockMgr.quit of the select.
handleResponseQuit(w, observe) ==
    /\ pc # "halted"
    /\ workers[w].pc = "send"
    /\ quit
    /\ returns(w, workers[w].req, workers[w].resp, workers[w].peerAddr,
               Progress(FALSE, FALSE), <<>>, FALSE, observe)
    /\ UNCHANGED verifyVars
    /\ UNCHANGED <<storeVars, quit, mwebUtxosCallbacks, mtx, pc, queryVars,
                   sync, utxosChan, errChan, logVars, runs, notify, storeErr>>

(***************************************************************************)
(* The environment: the dispatcher reports the end of the query on the     *)
(* error channel, once; the node is shut down; a subscriber registers.     *)
(***************************************************************************)
OtherReq == [kind |-> "other"]

Requests == SeqRange(q.msgs) \cup {OtherReq}

DispatcherResult(err) ==
    /\ pc \in {"lock", "wait"}
    /\ errChan = "empty"
    /\ errChan' = err
    /\ UNCHANGED verifyVars
    /\ UNCHANGED <<storeVars, quit, mwebUtxosCallbacks, mtx, pc, queryVars,
                   sync, utxosChan, workers, lastReturn, logVars, runs,
                   notify, storeErr, banned>>

Shutdown ==
    /\ pc # "halted"
    /\ ~quit
    /\ quit' = TRUE
    /\ UNCHANGED verifyVars
    /\ UNCHANGED <<storeVars, mwebUtxosCallbacks, mtx, pc, queryVars, sync,
                   utxosChan, errChan, workers, lastReturn, logVars, runs,
                   notify, storeErr, banned>>

RegisterMwebUtxosCallback(cb) ==
    /\ pc # "halted"
    /\ mtx = "free"
    /\ cb \notin SeqRange(mwebUtxosCallbacks)
    /\ mwebUtxosCallbacks' = Append(mwebUtxosCallbacks, cb)
    /\ UNCHANGED verifyVars
    /\ UNCHANGED <<storeVars, quit, mtx, pc, queryVars, sync, utxosChan,
                   errChan, workers, lastReturn, logVars, runs, notify,
                   storeErr, banned>>

(***************************************************************************)
(* notifyAddedMwebUtxos, lines 623-671, called by a wallet with the        *)
(* leafset leafSet it knows.  The first step takes the lock and reads the  *)
(* leafset of the coin store; the second fetches the utxos of the leaves   *)
(* added since leafSet, reads the chain tip and calls the subscribers.     *)
(* The lock is released on every return.                                   *)
(***************************************************************************)
\* The loop of lines 643-648 without the test of the caller's leafset.
RECURSIVE notifyAllLeaves(_, _, _, _, _)
notifyAllLeaves(oldLeafset, newLeafset, newNumLeaves, index, addedLeaves) ==
    IF index < newNumLeaves
    THEN notifyAllLeaves(oldLeafset, newLeafset, newNumLeaves, index + 1,
             IF contains(newLeafset, index)
             THEN Append(addedLeaves, index)
             ELSE addedLeaves)
    ELSE addedLeaves

\* Lines 643-648.
RECURSIVE notifyAddedLeaves(_, _, _, _, _)
notifyAddedLeaves(oldLeafset, newLeafset, newNumLeaves, index, addedLeaves) ==
    IF index < newNumLeaves
    THEN notifyAddedLeaves(oldLeafset, newLeafset, newNumLeaves, index + 1,
             IF ~contains(oldLeafset, index) /\ contains(newLeafset, index)
             THEN Append(addedLeaves, index)
             ELSE addedLeaves)
    ELSE addedLeaves

\* FetchLeaves: the utxos the coin store holds at the leaves asked for.
RECURSIVE FetchLeaves(_, _)
FetchLeaves(leaves, coins) ==
    IF leaves = <<>> THEN <<>>
    ELSE IF Head(leaves) \in coins
    THEN <<[LeafIndex |-> Head(leaves), OutputId |-> OutputIdOf(Head(leaves))]>>
             \o FetchLeaves(Tail(leaves), coins)
    ELSE FetchLeaves(Tail(leaves), coins)

NotifyLeafsets == {<<>>, <<160>>, <<72>>}

notifyAddedMwebUtxos(leafSet, getFails) ==
    /\ pc # "halted"
    /\ notify.pc = "idle"
    /\ mtx = "free"
    /\ IF getFails
       THEN /\ notify' = [NoNotify EXCEPT !.err = "GetLeafSet"]
            /\ UNCHANGED mtx
       ELSE /\ notify' = [pc |-> "fetch", leafSet |-> leafSet,
                          newLeafset |-> dbLeafset,
                          newNumLeaves |-> dbNumLeaves,
                          err |-> "none", leaves |-> <<>>, calls |-> <<>>]
            /\ mtx' = "notify"
    /\ UNCHANGED verifyVars
    /\ UNCHANGED <<storeVars, quit, mwebUtxosCallbacks, pc, queryVars, sync,
                   utxosChan, errChan, workers, lastReturn, logVars, runs,
                   storeErr, banned>>

notifyAddedMwebUtxosFetch(fails) ==
    /\ pc # "halted"
    /\ notify.pc = "fetch"
    /\ mtx' = "free"
    /\ LET addedLeaves ==
               notifyAddedLeaves(notify.leafSet, notify.newLeafset,
                   notify.newNumLeaves,
                   8 * skipCommonPrefix(notify.leafSet, notify.newLeafset, 0),
                   <<>>)
       IN  notify' =
              IF fails # "nil"
              THEN [NoNotify EXCEPT !.err = fails, !.leaves = addedLeaves]
              ELSE [NoNotify EXCEPT
                      !.err = "nil",
                      !.leaves = addedLeaves,
                      !.calls =
                         [k \in 1 .. Len(mwebUtxosCallbacks) |->
                            [cb      |-> mwebUtxosCallbacks[k],
                             leafset |-> notify.newLeafset,
                             utxos   |-> FetchLeaves(addedLeaves, dbCoins)]]]
    /\ UNCHANGED verifyVars
    /\ UNCHANGED <<storeVars, quit, mwebUtxosCallbacks, pc, queryVars, sync,
                   utxosChan, errChan, workers, lastReturn, logVars, runs,
                   storeErr, banned>>

Next ==
    \/ /\ runs < MaxRuns
       /\ \E tip \in Tips, getFails \in BOOLEAN, purgeFails \in BOOLEAN :
              getMwebUtxos(tip, getFails, purgeFails)
    \/ getMwebUtxosLock
    \/ \E failAt \in 0 .. 4 : getMwebUtxosRecv(failAt)
    \/ getMwebUtxosErr
    \/ getMwebUtxosQuit
    \/ \E w \in Workers, req \in Requests, resp \in 1 .. Len(peerMsgs),
          peerAddr \in {"peerA"} : handleResponse(w, req, resp, peerAddr, FALSE)
    \/ \E w \in Workers : handleResponseSend(w, FALSE)
    \/ \E w \in Workers : handleResponseQuit(w, FALSE)
    \/ \E err \in {"nil", "ErrWorkManagerShuttingDown", "error"} :
           DispatcherResult(err)
    \/ Shutdown
    \/ \E cb \in Subscribers : RegisterMwebUtxosCallback(cb)

Spec == Init /\ [][Next]_vars

(***************************************************************************)
(* The handler observed: one sync of a fresh node, with every return of    *)
(* handleResponse recorded.                                                *)
(***************************************************************************)
HandlerTips == { [size |-> 3, leafset |-> <<160>>] }

NextHandler ==
    \/ /\ runs = 0
       /\ \E tip \in HandlerTips : getMwebUtxos(tip, FALSE, FALSE)
    \/ getMwebUtxosLock
    \/ getMwebUtxosRecv(0)
    \/ getMwebUtxosQuit
    \/ \E w \in Workers, req \in Requests, resp \in 1 .. Len(peerMsgs),
          peerAddr \in Peers : handleResponse(w, req, resp, peerAddr, TRUE)
    \/ \E w \in Workers : handleResponseSend(w, TRUE)
    \/ \E w \in Workers : handleResponseQuit(w, TRUE)
    \/ Shutdown

SpecHandler == Init /\ [][NextHandler]_vars

(***************************************************************************)
(* The order of the commits: one sync of a fresh node for a tip of three   *)
(* spans, the peers answering in any order and any number of times.        *)
(***************************************************************************)
OrderTips == { [size |-> 6, leafset |-> <<252>>] }

NextOrder ==
    \/ /\ runs = 0
       /\ \E tip \in OrderTips : getMwebUtxos(tip, FALSE, FALSE)
    \/ getMwebUtxosLock
    \/ getMwebUtxosRecv(0)
    \/ \E w \in Workers, req \in Requests, resp \in 1 .. Len(peerMsgs) :
           handleResponse(w, req, resp, "peerA", FALSE)
    \/ \E w \in Workers : handleResponseSend(w, FALSE)
    \/ \E cb \in Subscribers : RegisterMwebUtxosCallback(cb)

SpecOrder == Init /\ [][NextOrder]_vars

(***************************************************************************)
(* The coin store failing: one sync of a fresh node, any call of the coin  *)
(* store returning an error, and the wallet asking for the added utxos.    *)
(***************************************************************************)
NextStore ==
    \/ /\ runs = 0
       /\ \E tip \in Tips, getFails \in BOOLEAN, purgeFails \in BOOLEAN :
              getMwebUtxos(tip, getFails, purgeFails)
    \/ getMwebUtxosLock
    \/ \E failAt \in 0 .. 4 : getMwebUtxosRecv(failAt)
    \/ \E req \in Requests, resp \in 1 .. Len(peerMsgs) :
           handleResponse("w1", req, resp, "peerA", FALSE)
    \/ handleResponseSend("w1", FALSE)
    \/ \E cb \in Subscribers : RegisterMwebUtxosCallback(cb)
    \/ \E leafSet \in NotifyLeafsets, getFails \in BOOLEAN :
           notifyAddedMwebUtxos(leafSet, getFails)
    \/ \E fails \in {"nil", "FetchLeaves", "ChainTip"} :
           notifyAddedMwebUtxosFetch(fails)

SpecStore == Init /\ [][NextStore]_vars

(***************************************************************************)
(* verifyMwebUtxos on its own: a header over n outputs, a leafset over     *)
(* them, and the message an honest peer would build for a leafset that is  *)
(* the same or differs in one leaf, asked from any start for any count,    *)
(* as it is and with its StartIndex moved.                                 *)
(***************************************************************************)
MaxVerifyLeaves == 5

RECURSIVE LeafsetByte(_)
LeafsetByte(leaves) ==
    IF leaves = {} THEN 0
    ELSE LET i == CHOOSE x \in leaves : TRUE
         IN  Pow2(7 - i) + LeafsetByte(leaves \ {i})

LeafsetOf(leaves) == <<LeafsetByte(leaves)>>

OneLeafOff(leaves, n) ==
    {leaves} \cup {(leaves \ {i}) \cup ({i} \ leaves) : i \in 0 .. n - 1}

MovedStart(m) == [m EXCEPT !.StartIndex = @ + 1]

VerifyInputsOf(n) ==
    UNION {
      UNION {
        UNION {
          LET m == HonestMsg(<<"block", n>>, n, LeafsetOf(claimed),
                             start, count)
          IN  { [mwebHeader |-> mwebHeaderOf([size |-> n]),
                 leafset |-> LeafsetOf(leaves), mwebUtxos |-> m],
                [mwebHeader |-> mwebHeaderOf([size |-> n]),
                 leafset |-> LeafsetOf(leaves), mwebUtxos |-> MovedStart(m)] }
          : start \in 0 .. n - 1, count \in 1 .. MaxMwebUtxosPerQuery }
        : claimed \in OneLeafOff(leaves, n) }
      : leaves \in SUBSET (0 .. n - 1) }

EmptyInput ==
    [mwebHeader |-> mwebHeaderOf([size |-> 0]), leafset |-> <<>>,
     mwebUtxos |-> HonestMsg(<<"block", 0>>, 0, <<>>, 0, 0)]

VerifyInputs(maxLeaves) ==
    {EmptyInput} \cup UNION {VerifyInputsOf(n) : n \in 1 .. maxLeaves}

InitVerify ==
    /\ InitNode
    /\ vIn \in VerifyInputs(MaxVerifyLeaves)
    /\ vOut = NoResult
    /\ NoHeaderCall
    /\ NoIndexCall
    /\ NoStray

Verify ==
    /\ ~vOut.returned
    /\ vOut' = [returned |-> TRUE,
                ok |-> verifyMwebUtxos(vIn.mwebHeader, vIn.leafset,
                                       vIn.mwebUtxos)]
    /\ UNCHANGED <<dbLeafset, dbNumLeaves, dbCoins, quit, mwebUtxosCallbacks,
                   mtx, pc, q, sync, utxosChan, errChan, peerMsgs, accepted,
                   workers, lastReturn, putCoinsLog, callbackLog, purgeLog,
                   runs, notify, storeErr, banned, vIn, hIn, hOut, mIn,
                   mOut, stray>>

NextVerify == Verify

SpecVerify == InitVerify /\ [][NextVerify]_vars

(***************************************************************************)
(* verifyMwebUtxos on the proofs of an honest peer and on what becomes of  *)
(* them when one hash is replaced: a header over n outputs, any leafset    *)
(* over them, the message for any start and any count, as it is and with   *)
(* one output id or one proof hash replaced by another value: a hash from  *)
(* outside the MMR, the zero hash or the hash that follows it in the       *)
(* message.                                                                *)
(***************************************************************************)
\* The output ids and then the proof hashes of message m.
HashesOf(m) ==
    [k \in 1 .. Len(m.Utxos) |-> m.Utxos[k].OutputId] \o m.ProofHashes

ReplaceAt(m, p, x) ==
    IF p <= Len(m.Utxos)
    THEN [m EXCEPT !.Utxos[p].OutputId = x]
    ELSE [m EXCEPT !.ProofHashes[p - Len(m.Utxos)] = x]

Replacements(m, p) ==
    {BogusHash, ZeroHash, HashesOf(m)[(p % Len(HashesOf(m))) + 1]}
        \ {HashesOf(m)[p]}

Tampered(m) ==
    UNION { {ReplaceAt(m, p, x) : x \in Replacements(m, p)} :
            p \in 1 .. Len(HashesOf(m)) }

\* The inputs with the message of the honest peer.
HonestInputsOf(n) ==
    UNION {
        { [mwebHeader |-> mwebHeaderOf([size |-> n]),
           leafset |-> LeafsetOf(leaves),
           mwebUtxos |-> HonestMsg(<<"block", n>>, n, LeafsetOf(leaves),
                                   start, count)]
          : start \in 0 .. n - 1, count \in 1 .. n }
      : leaves \in SUBSET (0 .. n - 1) }

\* Input in as it is and with one hash of its message replaced.
ProofInputsFrom(in) ==
    {in} \cup {[in EXCEPT !.mwebUtxos = m] : m \in Tampered(in.mwebUtxos)}

InitProof ==
    /\ InitNode
    /\ \E n \in 1 .. MaxVerifyLeaves :
          \E in \in HonestInputsOf(n) : vIn \in ProofInputsFrom(in)
    /\ vOut = NoResult
    /\ NoHeaderCall
    /\ NoIndexCall
    /\ NoStray

NextProof == Verify

SpecProof == InitProof /\ [][NextProof]_vars

(***************************************************************************)
(* verifyMwebUtxos on the message of an honest peer, once with the leafset *)
(* the message was built for and once more with one bit of that leafset    *)
(* flipped, the header and the message being the same.                     *)
(***************************************************************************)
FlipBit(l, bit) ==
    [l EXCEPT ![(bit \div 8) + 1] =
        IF (@ \div Pow2(7 - (bit % 8))) % 2 = 1
        THEN @ - Pow2(7 - (bit % 8))
        ELSE @ + Pow2(7 - (bit % 8))]

FlipInputs(maxLeaves) == UNION {HonestInputsOf(n) : n \in 1 .. maxLeaves}

InitFlip ==
    /\ InitNode
    /\ vIn \in FlipInputs(MaxVerifyLeaves)
    /\ vOut = NoResult
    /\ NoHeaderCall
    /\ NoIndexCall
    /\ NoStray

VerifyFlipped(bit) ==
    /\ ~vOut.returned
    /\ vOut' = [returned |-> TRUE,
                ok |-> verifyMwebUtxos(vIn.mwebHeader, vIn.leafset,
                                       vIn.mwebUtxos),
                bit |-> bit,
                flipped |-> verifyMwebUtxos(vIn.mwebHeader,
                                            FlipBit(vIn.leafset, bit),
                                            vIn.mwebUtxos)]
    /\ UNCHANGED <<dbLeafset, dbNumLeaves, dbCoins, quit, mwebUtxosCallbacks,
                   mtx, pc, q, sync, utxosChan, errChan, peerMsgs, accepted,
                   workers, lastReturn, putCoinsLog, callbackLog, purgeLog,
                   runs, notify, storeErr, banned, vIn, hIn, hOut, mIn,
                   mOut, stray>>

NextFlip == \E bit \in 0 .. (8 * Len(vIn.leafset) - 1) : VerifyFlipped(bit)

SpecFlip == InitFlip /\ [][NextFlip]_vars

(***************************************************************************)
(* verifyMwebHeader on its own.  The peer sends the two messages, so every *)
(* field of them is the peer's choice: the merkle block may match no       *)
(* transaction, one or two, the HogEx transaction may have no output, one  *)
(* or two, and every hash may be the right one or another.                 *)
(***************************************************************************)
\* What the extraction of a partial merkle tree yields: the root it hashes
\* to, and the matched transactions with their positions.
ExtractResults ==
    { [Root |-> root, Match |-> mi.Match, Index |-> mi.Index] :
        root \in {1, 2},
        mi \in { [Match |-> <<>>, Index |-> <<>>],
                 [Match |-> <<1>>, Index |-> <<0>>],
                 [Match |-> <<2, 1>>, Index |-> <<0, 1>>],
                 [Match |-> <<1, 2>>, Index |-> <<0, 1>>] } }

HogexOutputs ==
    { <<>>,
      <<[PkScript |-> HogAddrScript(7)]>>,
      <<[PkScript |-> HogAddrScript(8)]>>,
      <<[PkScript |-> HogAddrScript(7)], [PkScript |-> <<>>]>> }

MwebHeaderMsgs ==
    { [kind |-> "mwebheader",
       Merkle |-> [Header |-> [MerkleRoot |-> 1], Transactions |-> t],
       Hogex |-> [IsHogEx |-> isHogEx, TxOut |-> outs],
       MwebHeader |-> [LeafsetRoot |-> 1]] :
        t \in 0 .. 2, isHogEx \in BOOLEAN, outs \in HogexOutputs }

MwebLeafsetMsgs == { [kind |-> "mwebleafset", Leafset |-> <<160>>] }

HeaderInputs ==
    { [mwebHeader |-> h, mwebLeafset |-> l, lastHash |-> 1,
       blockHash |-> blockHash, extractResult |-> e, hogexTxHash |-> 1,
       mwebHeaderHash |-> 7, leafsetHash |-> leafsetHash] :
        h \in MwebHeaderMsgs \cup {NilMsg},
        l \in MwebLeafsetMsgs \cup {NilMsg},
        blockHash \in {1, 2}, e \in ExtractResults, leafsetHash \in {1, 2} }

InitHeader ==
    /\ InitNode
    /\ vIn = NoInput
    /\ vOut = NoResult
    /\ hIn \in HeaderInputs
    /\ hOut = NoHeaderResult
    /\ NoIndexCall
    /\ NoStray

VerifyHeader ==
    /\ ~hOut.returned
    /\ hOut' = [returned |-> TRUE, result |-> verifyMwebHeader(hIn)]
    /\ UNCHANGED <<dbLeafset, dbNumLeaves, dbCoins, quit, mwebUtxosCallbacks,
                   mtx, pc, q, sync, utxosChan, errChan, peerMsgs, accepted,
                   workers, lastReturn, putCoinsLog, callbackLog, purgeLog,
                   runs, notify, storeErr, banned, vIn, vOut, hIn, mIn,
                   mOut, stray>>

NextHeader == VerifyHeader

SpecHeader == InitHeader /\ [][NextHeader]_vars

(***************************************************************************)
(* The plan of getMwebUtxos on its own: a node restarted with any leafset  *)
(* in its coin store, of one byte or of two, runs one sync for a tip with  *)
(* any leafset.  A leafset of n leaves has no bit set from n on, and the   *)
(* coin store holds the coins of the leaves set.                           *)
(***************************************************************************)
MaxDiffLeaves == 3

\* The leafsets of n leaves in one byte, and those of 8 + n leaves whose
\* first byte has all leaves unspent or all but leaf 0.
DiffTips(maxLeaves) ==
    {[size |-> 0, leafset |-> <<>>]}
        \cup UNION {
               UNION { { [size |-> n, leafset |-> LeafsetOf(leaves)],
                         [size |-> 8 + n,
                          leafset |-> <<255>> \o LeafsetOf(leaves)],
                         [size |-> 8 + n,
                          leafset |-> <<127>> \o LeafsetOf(leaves)] }
                       : leaves \in SUBSET (0 .. n - 1) }
               : n \in 1 .. maxLeaves }

InitDiff ==
    /\ \E tip \in DiffTips(MaxDiffLeaves) :
          /\ dbLeafset = tip.leafset
          /\ dbNumLeaves = tip.size
          /\ dbCoins = {i \in 0 .. tip.size - 1 : contains(tip.leafset, i)}
    /\ quit = FALSE
    /\ mwebUtxosCallbacks = <<>>
    /\ mtx = "free"
    /\ pc = "idle"
    /\ q = NoQuery
    /\ sync = NoSync
    /\ utxosChan = <<>>
    /\ errChan = "none"
    /\ peerMsgs = <<>>
    /\ accepted = {}
    /\ workers = [w \in Workers |-> Idle]
    /\ lastReturn = NoReturn
    /\ putCoinsLog = <<>>
    /\ callbackLog = <<>>
    /\ purgeLog = <<>>
    /\ runs = 0
    /\ notify = NoNotify
    /\ storeErr = "none"
    /\ banned = {}
    /\ vIn = NoInput
    /\ vOut = NoResult
    /\ NoHeaderCall
    /\ NoIndexCall
    /\ NoStray

NextDiff ==
    /\ runs = 0
    /\ \E tip \in DiffTips(MaxDiffLeaves) : getMwebUtxos(tip, FALSE, FALSE)

SpecDiff == InitDiff /\ [][NextDiff]_vars

(***************************************************************************)
(* The index arithmetic on its own: for a leaf index mIn the node of the   *)
(* leaf and the leaf index and the height of that node, and for the leaf   *)
(* count mIn the peaks of the MMR.                                         *)
(***************************************************************************)
MaxLeafIdx == 64

InitIndex ==
    /\ InitNode
    /\ vIn = NoInput
    /\ vOut = NoResult
    /\ NoHeaderCall
    /\ mIn \in 0 .. MaxLeafIdx
    /\ mOut = NoIndexResult
    /\ NoStray

LeafToNode ==
    /\ ~mOut.mapped
    /\ mOut' = [mOut EXCEPT !.mapped = TRUE,
                            !.node = nodeIdx(mIn),
                            !.leaf = leafIdx(nodeIdx(mIn)),
                            !.height = height(nodeIdx(mIn))]
    /\ UNCHANGED <<dbLeafset, dbNumLeaves, dbCoins, quit, mwebUtxosCallbacks,
                   mtx, pc, q, sync, utxosChan, errChan, peerMsgs, accepted,
                   workers, lastReturn, putCoinsLog, callbackLog, purgeLog,
                   runs, notify, storeErr, banned, vIn, vOut, hIn, hOut, mIn,
                   stray>>

PeaksOfCount ==
    /\ ~mOut.peaked
    /\ mOut' = [mOut EXCEPT !.peaked = TRUE,
                            !.peaks = calcPeaks(nodeIdx(mIn))]
    /\ UNCHANGED <<dbLeafset, dbNumLeaves, dbCoins, quit, mwebUtxosCallbacks,
                   mtx, pc, q, sync, utxosChan, errChan, peerMsgs, accepted,
                   workers, lastReturn, putCoinsLog, callbackLog, purgeLog,
                   runs, notify, storeErr, banned, vIn, vOut, hIn, hOut, mIn,
                   stray>>

NextIndex == LeafToNode \/ PeaksOfCount

SpecIndex == InitIndex /\ [][NextIndex]_vars

(***************************************************************************)
(* The shutdown: one sync of a fresh node, the peers answering, the wallet *)
(* calling notifyAddedMwebUtxos at any time, and b.quit closed at any      *)
(* time.  A select of Go picks among its ready cases at random, so a case  *)
(* that stays ready is taken in the end: the case <-b.quit of the wait     *)
(* loop and the case <-m.blockMgr.quit of the handler are weakly fair.     *)
(* sync.Mutex hands the lock to a goroutine that has waited long, so the   *)
(* Lock of line 418 is strongly fair; notifyAddedMwebUtxos, once it holds  *)
(* the mutex, runs to its return.                                          *)
(***************************************************************************)
LiveTips == { [size |-> 5, leafset |-> <<184>>] }

NextLive ==
    \/ /\ runs = 0
       /\ \E tip \in LiveTips : getMwebUtxos(tip, FALSE, FALSE)
    \/ getMwebUtxosLock
    \/ getMwebUtxosRecv(0)
    \/ getMwebUtxosErr
    \/ getMwebUtxosQuit
    \/ \E w \in Workers, req \in Requests, resp \in 1 .. Len(peerMsgs) :
           handleResponse(w, req, resp, "peerA", FALSE)
    \/ \E w \in Workers : handleResponseSend(w, FALSE)
    \/ \E w \in Workers : handleResponseQuit(w, FALSE)
    \/ \E err \in {"nil", "ErrWorkManagerShuttingDown", "error"} :
           DispatcherResult(err)
    \/ Shutdown
    \/ \E leafSet \in NotifyLeafsets : notifyAddedMwebUtxos(leafSet, FALSE)
    \/ notifyAddedMwebUtxosFetch("nil")

SpecLive ==
    /\ Init
    /\ [][NextLive]_vars
    /\ SF_vars(getMwebUtxosLock)
    /\ WF_vars(getMwebUtxosQuit)
    /\ \A w \in Workers : WF_vars(handleResponseQuit(w, FALSE))
    /\ WF_vars(notifyAddedMwebUtxosFetch("nil"))

(***************************************************************************)
(* The commit frontier: a node that holds leaf 1 syncs to a tip where leaf *)
(* 1 is spent and leaves 0, 2 and 3 are unspent, which takes a span of     *)
(* leaf 0 and a span of leaves 2 and 3.  The peers answer in any order;    *)
(* and, once, a response whose utxos start before the span awaited and end *)
(* in it or after it is put on utxosChan past handleResponse, which is the *)
(* case the reassembly loop of lines 447-487 has no branch of its own for. *)
(***************************************************************************)
StraddleTips == { [size |-> 4, leafset |-> <<176>>] }

InitStraddle ==
    /\ dbLeafset = <<64>>
    /\ dbNumLeaves = 2
    /\ dbCoins = {1}
    /\ quit = FALSE
    /\ mwebUtxosCallbacks = <<>>
    /\ mtx = "free"
    /\ pc = "idle"
    /\ q = NoQuery
    /\ sync = NoSync
    /\ utxosChan = <<>>
    /\ errChan = "none"
    /\ peerMsgs = <<>>
    /\ accepted = {}
    /\ workers = [w \in Workers |-> Idle]
    /\ lastReturn = NoReturn
    /\ putCoinsLog = <<>>
    /\ callbackLog = <<>>
    /\ purgeLog = <<>>
    /\ runs = 0
    /\ notify = NoNotify
    /\ storeErr = "none"
    /\ banned = {}
    /\ vIn = NoInput
    /\ vOut = NoResult
    /\ NoHeaderCall
    /\ NoIndexCall
    /\ NoStray

\* Lines 449-451 for the message p of the peers, against the span awaited:
\* startIndex < curIndex <= lastIndex.
straddles(p, curIndex) ==
    /\ peerMsgs[p].kind = "mwebutxos"
    /\ peerMsgs[p].Utxos[1].LeafIndex < curIndex
    /\ curIndex <= peerMsgs[p].Utxos[Len(peerMsgs[p].Utxos)].LeafIndex

StraddlerArrives ==
    /\ pc = "wait"
    /\ ~stray
    /\ moreSpans(sync.i, sync.addedLeaves)
    /\ Len(utxosChan) < Len(q.msgs)
    /\ \E p \in 1 .. Len(peerMsgs) :
          /\ straddles(p, sync.addedLeaves[sync.i + 1].start)
          /\ utxosChan' = Append(utxosChan, p)
    /\ stray' = TRUE
    /\ UNCHANGED <<storeVars, quit, mwebUtxosCallbacks, mtx, pc, queryVars,
                   sync, errChan, workers, lastReturn, logVars, runs, notify,
                   storeErr, banned, vIn, vOut, hIn, hOut, mIn, mOut>>

NextStraddle ==
    \/ /\ runs = 0
       /\ \E tip \in StraddleTips : getMwebUtxos(tip, FALSE, FALSE)
    \/ getMwebUtxosLock
    \/ getMwebUtxosRecv(0)
    \/ \E w \in Workers, req \in Requests, resp \in 1 .. Len(peerMsgs),
          peerAddr \in Peers : handleResponse(w, req, resp, peerAddr, FALSE)
    \/ \E w \in Workers : handleResponseSend(w, FALSE)
    \/ \E cb \in Subscribers : RegisterMwebUtxosCallback(cb)
    \/ StraddlerArrives

SpecStraddle == InitStraddle /\ [][NextStraddle]_vars

(***************************************************************************)
(* The whole of one sync: a fresh node syncs to a tip of two spans; the    *)
(* peers answer in any order and any number of times; the dispatcher       *)
(* reports the end of the query, with or without an error, or closes its   *)
(* error channel; PutCoins and PutLeafSetAndPurge may fail; the node may   *)
(* be shut down.  A receive from a closed channel yields nil at once, so   *)
(* the case err := <-errChan of lines 428-441 then goes round the loop.    *)
(* Every case of a select that stays ready is taken in the end, and a send *)
(* on a channel with room takes place: the receive from utxosChan, the     *)
(* send of a handler and the Lock of line 418 are fair.                    *)
(***************************************************************************)
SyncTips == { [size |-> 5, leafset |-> <<184>>] }

\* The number of spans the differ plans for that tip on a fresh node.
SyncSpans ==
    LET tip == CHOOSE t \in SyncTips : TRUE
    IN  Len(diffLeafsets(<<>>, 0, tip.leafset, tip.size).addedLeaves)

DispatcherCloses ==
    /\ pc \in {"lock", "wait"}
    /\ errChan \in {"empty", "drained"}
    /\ errChan' = "closed"
    /\ UNCHANGED verifyVars
    /\ UNCHANGED <<storeVars, quit, mwebUtxosCallbacks, mtx, pc, queryVars,
                   sync, utxosChan, workers, lastReturn, logVars, runs,
                   notify, storeErr, banned>>

getMwebUtxosErrClosed ==
    /\ pc = "wait"
    /\ errChan = "closed"
    /\ UNCHANGED vars

getMwebUtxosRecvAny == \E failAt \in 0 .. 4 : getMwebUtxosRecv(failAt)

NextSync ==
    \/ /\ runs = 0
       /\ \E tip \in SyncTips : getMwebUtxos(tip, FALSE, FALSE)
    \/ getMwebUtxosLock
    \/ getMwebUtxosRecvAny
    \/ getMwebUtxosErr
    \/ getMwebUtxosErrClosed
    \/ getMwebUtxosQuit
    \/ \E w \in Workers, req \in Requests, resp \in 1 .. Len(peerMsgs) :
           handleResponse(w, req, resp, "peerA", FALSE)
    \/ \E w \in Workers : handleResponseSend(w, FALSE)
    \/ \E w \in Workers : handleResponseQuit(w, FALSE)
    \/ \E err \in {"nil", "ErrWorkManagerShuttingDown", "error"} :
           DispatcherResult(err)
    \/ DispatcherCloses
    \/ Shutdown

SpecSync ==
    /\ Init
    /\ [][NextSync]_vars
    /\ WF_vars(getMwebUtxosLock)
    /\ WF_vars(getMwebUtxosRecvAny)
    /\ \A w \in Workers : WF_vars(handleResponseSend(w, FALSE))

(***************************************************************************)
(* The properties.                                                         *)
(***************************************************************************)
StartOf(p) == peerMsgs[p].StartIndex

\* The messages subscriber cb was called with in this sync, in order.
Delivered(cb) ==
    LET To(e) == e.cb = cb
        calls == SelectSeq(callbackLog, To)
    IN  [k \in 1 .. Len(calls) |-> calls[k].r]

Incomplete == Len(putCoinsLog) < Len(sync.addedLeaves)

FF == [Finished |-> FALSE, Progressed |-> FALSE]

TT == [Finished |-> TRUE, Progressed |-> TRUE]

\* The request and the response agree in the four fields compared.
SameFields(req, r) ==
    /\ req.BlockHash = r.BlockHash
    /\ req.StartIndex = r.StartIndex
    /\ req.OutputFormat = r.OutputFormat
    /\ req.NumRequested = Len(r.Utxos)

\* ret is the return of a call with a matching response that the verifier
\* rejects.
RejectedCall(ret) ==
    /\ ret.resp \in DOMAIN peerMsgs
    /\ ret.req.kind = "getmwebutxos"
    /\ peerMsgs[ret.resp].kind = "mwebutxos"
    /\ SameFields(ret.req, peerMsgs[ret.resp])
    /\ ~verifyMwebUtxos(q.mwebHeader, q.leafset, peerMsgs[ret.resp])

\* ret is the return of a call with a response or a request of the wrong
\* kind, or with a response that differs from the request in a field.
MismatchCall(ret) ==
    /\ ret.resp \in DOMAIN peerMsgs
    /\ IF peerMsgs[ret.resp].kind # "mwebutxos" THEN TRUE
       ELSE IF ret.req.kind # "getmwebutxos" THEN TRUE
       ELSE ~SameFields(ret.req, peerMsgs[ret.resp])

\* The commits of the sync are the answers to its first spans, in order, and
\* each subscriber was called with them, in order.
CommitsInOrder ==
    /\ Len(putCoinsLog) <= Len(sync.addedLeaves)
    /\ \A k \in 1 .. Len(putCoinsLog) :
           StartOf(putCoinsLog[k]) = sync.addedLeaves[k].start
    /\ \A k \in 1 .. Len(putCoinsLog) - 1 :
           StartOf(putCoinsLog[k]) < StartOf(putCoinsLog[k + 1])
    /\ \A cb \in Subscribers :
           /\ Delivered(cb) \in {<<>>, putCoinsLog}
           /\ (pc = "wait" /\ cb \in SeqRange(mwebUtxosCallbacks))
                  => Delivered(cb) = putCoinsLog

\* The next message on the channel answers a span already committed.
LateDuplicate ==
    /\ pc = "wait"
    /\ utxosChan # <<>>
    /\ \E k \in 1 .. Len(putCoinsLog) :
           StartOf(Head(utxosChan)) = StartOf(putCoinsLog[k])

\* Message p of peerMsgs is one that handleResponse lets through.
PassedHandler(p) ==
    /\ peerMsgs[p].kind = "mwebutxos"
    /\ \E k \in 1 .. Len(q.msgs) : SameFields(q.msgs[k], peerMsgs[p])
    /\ verifyMwebUtxos(q.mwebHeader, q.leafset, peerMsgs[p])

\* Leaf i is unspent in leafset l: bit 0x80 >> (i % 8) of byte i / 8 is set.
IsSet(l, i) ==
    /\ i \div 8 < Len(l)
    /\ (l[(i \div 8) + 1] \div Pow2(7 - (i % 8))) % 2 = 1

\* notifyAddedMwebUtxos has returned an error of the coin store.
NotifyStoreErr == notify.err \in {"GetLeafSet", "FetchLeaves"}

(***************************************************************************)
(* C1: the PutCoins calls and the subscriber calls of a sync happen once   *)
(* per planned span in strictly ascending StartIndex order, the k-th       *)
(* commit being the answer to the k-th span, whatever the order and the    *)
(* number of times the responses arrive in; and the receipt of a duplicate *)
(* of a span already committed makes no PutCoins and no subscriber call.   *)
(***************************************************************************)
C1_CommitOrder ==
    [][ /\ CommitsInOrder'
        /\ (LateDuplicate /\ utxosChan' = Tail(utxosChan))
               => UNCHANGED <<putCoinsLog, callbackLog, dbCoins>> ]_vars

\* The first span is committed and a subscriber called, a later span waits
\* in the cache, and a duplicate of the first span is next on the channel.
C1_Witness ==
    /\ pc = "wait"
    /\ Len(putCoinsLog) = 1
    /\ callbackLog # <<>>
    /\ DOMAIN sync.queryResponses # {}
    /\ utxosChan # <<>>
    /\ Head(utxosChan) = putCoinsLog[1]

(***************************************************************************)
(* C2: every message on utxosChan, in the reorder cache, passed to         *)
(* PutCoins or passed to a subscriber is a message of the right kind that  *)
(* answers a request of the sync and that verifyMwebUtxos accepts for the  *)
(* header and the new leafset of the sync.                                 *)
(***************************************************************************)
C2_OnlyVerified ==
    \A p \in SeqRange(utxosChan) \cup SeqRange(putCoinsLog)
               \cup {callbackLog[k].r : k \in 1 .. Len(callbackLog)}
               \cup {sync.queryResponses[k] : k \in DOMAIN sync.queryResponses} :
        PassedHandler(p)

\* A message has reached a subscriber, another is on the channel and both
\* handlers stand at their send.
C2_Witness ==
    /\ callbackLog # <<>>
    /\ utxosChan # <<>>
    /\ \A w \in Workers : workers[w].pc = "send"

(***************************************************************************)
(* C3: a call of handleResponse with a response of the right kind that     *)
(* matches the request in BlockHash, StartIndex, OutputFormat and number   *)
(* of utxos and that verifyMwebUtxos rejects makes exactly one call        *)
(* BanPeer(peerAddr, 21), sends nothing on utxosChan and returns           *)
(* {Finished: false, Progressed: false}.                                   *)
(***************************************************************************)
C3_BanOnReject ==
    [][ (lastReturn' # lastReturn /\ RejectedCall(lastReturn'))
            => /\ lastReturn'.banPeer =
                      <<[peerAddr |-> lastReturn'.peerAddr, reason |-> 21]>>
               /\ banned' = banned \cup
                      {[peerAddr |-> lastReturn'.peerAddr, reason |-> 21]}
               /\ lastReturn'.progress = FF
               /\ ~lastReturn'.sent
               /\ utxosChan' = utxosChan ]_vars

\* A call with a matching response that the verifier rejects has returned.
C3_Witness ==
    /\ RejectedCall(lastReturn)
    /\ lastReturn.banPeer # <<>>
    /\ lastReturn.peerAddr = "peerB"

(***************************************************************************)
(* C4: handleResponse calls BanPeer only when verifyMwebUtxos rejects a    *)
(* matching response; a response or a request of the wrong kind, or a      *)
(* response that differs from the request in BlockHash, StartIndex,        *)
(* OutputFormat or number of utxos, bans no peer, sends nothing on         *)
(* utxosChan and returns {Finished: false, Progressed: false}.             *)
(***************************************************************************)
C4_BanOnlyOnReject ==
    [][ /\ (banned' # banned) => RejectedCall(lastReturn')
        /\ (lastReturn' # lastReturn /\ lastReturn'.banPeer # <<>>)
               => RejectedCall(lastReturn')
        /\ (lastReturn' # lastReturn /\ MismatchCall(lastReturn'))
               => /\ lastReturn'.banPeer = <<>>
                  /\ banned' = banned
                  /\ lastReturn'.progress = FF
                  /\ ~lastReturn'.sent
                  /\ utxosChan' = utxosChan ]_vars

\* A call whose response starts at another index than the request has
\* returned, after some peer was banned.
C4_Witness ==
    /\ MismatchCall(lastReturn)
    /\ lastReturn.req.kind = "getmwebutxos"
    /\ peerMsgs[lastReturn.resp].kind = "mwebutxos"
    /\ lastReturn.req.StartIndex # peerMsgs[lastReturn.resp].StartIndex
    /\ banned # {}

(***************************************************************************)
(* C5: handleResponse returns {Finished: true, Progressed: true} exactly   *)
(* when it has sent the response, a verified one, on utxosChan; a call     *)
(* that stood at the send and returns without sending does so after the    *)
(* shutdown signal and returns {Finished: false, Progressed: false}; no    *)
(* call returns with exactly one of the two flags set.                     *)
(***************************************************************************)
C5_FinishedIffSent ==
    [][ /\ lastReturn' # lastReturn
           => /\ lastReturn'.progress \in {TT, FF}
              /\ (lastReturn'.progress = TT) <=> lastReturn'.sent
              /\ lastReturn'.sent <=>
                     (utxosChan' = Append(utxosChan, lastReturn'.resp))
              /\ lastReturn'.sent =>
                     verifyMwebUtxos(q.mwebHeader, q.leafset,
                                     peerMsgs[lastReturn'.resp])
        /\ \A w \in Workers :
              (workers[w].pc = "send" /\ workers'[w].pc = "idle"
                  /\ utxosChan' = utxosChan)
              => (quit /\ lastReturn'.progress = FF /\ ~lastReturn'.sent) ]_vars

\* The shutdown signal has won the race of a call with a verified response
\* while the channel had room.
C5_Witness ==
    /\ quit
    /\ lastReturn.resp \in accepted
    /\ lastReturn.req.kind = "getmwebutxos"
    /\ SameFields(lastReturn.req, peerMsgs[lastReturn.resp])
    /\ lastReturn.progress = FF
    /\ Len(utxosChan) < Len(q.msgs)

(***************************************************************************)
(* C6: a run of getMwebUtxos calls PutLeafSetAndPurge at most once, with   *)
(* the new leafset, the new count and the removed leaves, and only when    *)
(* every planned span has been committed by PutCoins; with no span planned *)
(* it does so at once, without a Query call and without a subscriber call; *)
(* after the purge the run makes no PutCoins and no subscriber call.       *)
(***************************************************************************)
C6_PurgeLast ==
    [][ /\ Len(purgeLog') <= 1
        /\ purgeLog' # <<>>
              => /\ pc' = "done"
                 /\ Len(putCoinsLog') = Len(sync'.addedLeaves)
                 /\ purgeLog'[1] = [leafset |-> dbLeafset',
                                    count |-> sync'.newNumLeaves,
                                    removed |-> sync'.removedLeaves]
        /\ (runs' # runs /\ pc' # "halted" /\ sync'.addedLeaves = <<>>)
              => /\ purgeLog' # <<>>
                 /\ errChan' = "none"
                 /\ callbackLog' = <<>>
        /\ (purgeLog # <<>> /\ runs' = runs)
              => UNCHANGED <<putCoinsLog, callbackLog, purgeLog, dbLeafset,
                             dbNumLeaves, dbCoins>> ]_vars

\* A sync of two spans has committed both, called a subscriber and purged.
C6_Witness ==
    /\ purgeLog # <<>>
    /\ Len(putCoinsLog) = 2
    /\ callbackLog # <<>>

(***************************************************************************)
(* C7: when the select of getMwebUtxos takes the shutdown case, or         *)
(* receives a non-nil error from the error channel, before all planned     *)
(* spans are committed, getMwebUtxos returns without PutLeafSetAndPurge    *)
(* and without another PutCoins or subscriber call, and the persisted      *)
(* leafset and leaf count are those from before the sync; a run that       *)
(* returns with a span uncommitted has returned so.                        *)
(***************************************************************************)
C7_AbortKeepsStore ==
    [][ /\ (pc' \in {"done", "aborted"} /\ Incomplete')
              => /\ pc' = "aborted"
                 /\ purgeLog' = <<>>
                 /\ dbLeafset' = sync'.oldLeafset
                 /\ dbNumLeaves' = sync'.oldNumLeaves
        /\ (pc = "wait" /\ pc' = "aborted")
              => /\ Incomplete
                 /\ quit \/ errChan \in {"ErrWorkManagerShuttingDown", "error"}
                 /\ UNCHANGED <<putCoinsLog, callbackLog, purgeLog, dbLeafset,
                                dbNumLeaves, dbCoins>>
        /\ (errChan \in {"ErrWorkManagerShuttingDown", "error"}
               /\ errChan' = "drained")
              => pc' = "aborted"
        /\ (pc = "aborted" /\ runs' = runs)
              => UNCHANGED <<pc, putCoinsLog, callbackLog, purgeLog,
                             dbLeafset, dbNumLeaves, dbCoins>> ]_vars

\* A sync has returned on the shutdown signal with one span committed and a
\* verified response left on the channel.
C7_Witness ==
    /\ pc = "aborted"
    /\ quit
    /\ putCoinsLog # <<>>
    /\ utxosChan # <<>>

\* C7 as claimed: from the moment the shutdown signal has fired with a span
\* uncommitted, the sync makes no PutCoins, no subscriber call and no purge
\* and leaves the store as it is; and so it does from the moment the error
\* channel has yielded a non-nil error to the select.
C7_Original ==
    [][ /\ (pc \in {"lock", "wait"} /\ Incomplete /\ quit)
              => UNCHANGED <<putCoinsLog, callbackLog, purgeLog, dbLeafset,
                             dbNumLeaves, dbCoins>>
        /\ (errChan \in {"ErrWorkManagerShuttingDown", "error"}
               /\ errChan' = "drained")
              => (pc' = "aborted"
                    /\ UNCHANGED <<putCoinsLog, callbackLog, purgeLog,
                                   dbLeafset, dbNumLeaves, dbCoins>>) ]_vars

C9_CountIsHeaderSize ==
    [][ /\ dbNumLeaves' # dbNumLeaves
              => /\ pc' = "done"
                 /\ purgeLog' # <<>>
                 /\ dbNumLeaves = sync'.oldNumLeaves
        /\ purgeLog' # <<>> => dbNumLeaves' = sync'.newNumLeaves
        /\ sync'.newNumLeaves >= sync'.oldNumLeaves
              => dbNumLeaves' >= dbNumLeaves ]_vars

\* The second sync has raised the count from 3 to 5.
C9_Witness ==
    /\ runs = 2
    /\ pc = "done"
    /\ sync.oldNumLeaves = 3
    /\ dbNumLeaves = 5

\* C9 as claimed: the leaf count never decreases.
C9_Original == [][dbNumLeaves' >= dbNumLeaves]_vars

(***************************************************************************)
(* C10: when verifyMwebUtxos returns true for a message with utxos, every  *)
(* LeafIndex is set in the leafset, the utxos are strictly ascending by    *)
(* LeafIndex, no leaf set in the leafset lies between two consecutive      *)
(* utxos, and the first LeafIndex is the StartIndex of the message.        *)
(***************************************************************************)
C10_VerifiedRange ==
    (vOut.returned /\ vOut.ok /\ vIn.mwebUtxos.Utxos # <<>>)
        => LET u == vIn.mwebUtxos.Utxos
           IN  /\ \A k \in 1 .. Len(u) : IsSet(vIn.leafset, u[k].LeafIndex)
               /\ \A k \in 1 .. Len(u) - 1 :
                     /\ u[k].LeafIndex < u[k + 1].LeafIndex
                     /\ \A j \in (u[k].LeafIndex + 1) .. (u[k + 1].LeafIndex - 1) :
                            ~IsSet(vIn.leafset, j)
               /\ u[1].LeafIndex = vIn.mwebUtxos.StartIndex

\* The verifier has accepted two utxos with a spent leaf between them.
C10_Witness ==
    /\ vOut.returned
    /\ vOut.ok
    /\ Len(vIn.mwebUtxos.Utxos) = 2
    /\ vIn.mwebUtxos.Utxos[2].LeafIndex > vIn.mwebUtxos.Utxos[1].LeafIndex + 1

\* The message an honest peer builds for the header, the leafset, the start
\* and the number of utxos of input in.
HonestFor(in) ==
    HonestMsg(in.mwebUtxos.BlockHash, in.mwebHeader.OutputMMRSize, in.leafset,
              in.mwebUtxos.StartIndex, Len(in.mwebUtxos.Utxos))

\* The header of input in carries the root of the MMR of its size.
TrueHeader(in) ==
    in.mwebHeader = [OutputRoot |-> OutputRootOf(in.mwebHeader.OutputMMRSize),
                     OutputMMRSize |-> in.mwebHeader.OutputMMRSize]

\* Message m is message h with exactly one output id or proof hash replaced.
OneHashReplaced(m, h) ==
    /\ Len(m.Utxos) = Len(h.Utxos)
    /\ Len(m.ProofHashes) = Len(h.ProofHashes)
    /\ \A k \in 1 .. Len(m.Utxos) : m.Utxos[k].LeafIndex = h.Utxos[k].LeafIndex
    /\ m.StartIndex = h.StartIndex
    /\ Cardinality({p \in 1 .. Len(HashesOf(h)) :
                       HashesOf(m)[p] # HashesOf(h)[p]}) = 1

\* Three leaves, leafset 0xA0, the utxos 0 and 2 and the hash of leaf 1.
ThreeLeafExample ==
    [mwebHeader |->
        [OutputRoot |->
            <<"node", 4,
              <<"node", 2, <<"leaf", 0, <<"id", 0>> >>,
                           <<"leaf", 1, <<"id", 1>> >> >>,
              <<"leaf", 3, <<"id", 2>> >> >>,
         OutputMMRSize |-> 3],
     leafset |-> <<160>>,
     mwebUtxos |->
        [kind |-> "mwebutxos", BlockHash |-> <<"block", 3>>, StartIndex |-> 0,
         OutputFormat |-> "compact",
         Utxos |-> << [LeafIndex |-> 0, OutputId |-> <<"id", 0>>],
                      [LeafIndex |-> 2, OutputId |-> <<"id", 2>>] >>,
         ProofHashes |-> << <<"leaf", 1, <<"id", 1>> >> >>]]

(***************************************************************************)
(* C11: for the true root of an MMR of n leaves, any leafset over them and *)
(* any batch of consecutive unspent leaves from an unspent StartIndex,      *)
(* verifyMwebUtxos accepts the proof of the honest peer and rejects it     *)
(* when one proof hash or one output id is replaced by another value; it   *)
(* accepts for three leaves, leafset 0xA0, utxos (0, id0), (2, id2) and    *)
(* the proof hash hash(leaf 1).                                            *)
(***************************************************************************)
C11_RoundTrip ==
    (vOut.returned /\ TrueHeader(vIn) /\ vIn.mwebUtxos.Utxos # <<>>
        /\ IsSet(vIn.leafset, vIn.mwebUtxos.StartIndex))
        => /\ vIn.mwebUtxos = HonestFor(vIn) => vOut.ok
           /\ OneHashReplaced(vIn.mwebUtxos, HonestFor(vIn)) => ~vOut.ok
           /\ vIn = ThreeLeafExample => vOut.ok

\* The three-leaf example has been accepted.
C11_Witness ==
    /\ vOut.returned
    /\ vOut.ok
    /\ vIn = ThreeLeafExample

\* The bit flipped is that of a leaf from the StartIndex of the message to
\* the LeafIndex of its last utxo.
FlipInBatchRange ==
    /\ vIn.mwebUtxos.Utxos # <<>>
    /\ vOut.bit >= vIn.mwebUtxos.StartIndex
    /\ vOut.bit <= vIn.mwebUtxos.Utxos[Len(vIn.mwebUtxos.Utxos)].LeafIndex

(***************************************************************************)
(* C12: for a header, a leafset and a message that verifyMwebUtxos         *)
(* accepts, the flip of one bit of the leafset at a leaf index from the    *)
(* StartIndex of the message to the LeafIndex of its last utxo, all other  *)
(* inputs unchanged, makes verifyMwebUtxos return false.                   *)
(***************************************************************************)
C12_FlipInRange ==
    (vOut.returned /\ vOut.ok /\ FlipInBatchRange) => ~vOut.flipped

\* An accepted message of two utxos with a spent leaf between them was
\* rejected with that leaf set in the leafset.
C12_Witness ==
    /\ vOut.returned
    /\ vOut.ok
    /\ ~vOut.flipped
    /\ Len(vIn.mwebUtxos.Utxos) = 2
    /\ vOut.bit > vIn.mwebUtxos.Utxos[1].LeafIndex
    /\ vOut.bit < vIn.mwebUtxos.Utxos[2].LeafIndex

\* C12 as claimed: the flip of any one bit of the leafset makes the verifier
\* reject what it accepted.
C12_Original == (vOut.returned /\ vOut.ok) => ~vOut.flipped

(***************************************************************************)
(* C13: verifyMwebHeader never raises: for every input, a merkle block     *)
(* whose extraction yields no matched transaction and a HogEx transaction  *)
(* with no outputs included, the call ends with a boolean, false when a    *)
(* check fails.                                                            *)
(***************************************************************************)
C13_NeverRaises == hOut.returned => hOut.result \in {"true", "false"}

\* The new leafset of the sync: that of its query, or with no span planned
\* the one its purge has installed.
NewLeafsetOfSync ==
    IF sync.addedLeaves = <<>> THEN dbLeafset ELSE q.leafset

\* The indices the differ goes over.
DiffRange ==
    0 .. (IF sync.oldNumLeaves > sync.newNumLeaves
          THEN sync.oldNumLeaves ELSE sync.newNumLeaves) - 1

\* The leaves a span asks for: the first count leaves set in the new leafset
\* from its start on.
SpanLeaves(span) ==
    {i \in DiffRange :
        /\ i >= span.start
        /\ IsSet(NewLeafsetOfSync, i)
        /\ Cardinality({j \in span.start .. i : IsSet(NewLeafsetOfSync, j)})
               <= span.count}

SpansLeaves ==
    UNION {SpanLeaves(sync.addedLeaves[k]) : k \in 1 .. Len(sync.addedLeaves)}

AddedSince ==
    {i \in DiffRange : IsSet(NewLeafsetOfSync, i) /\ ~IsSet(sync.oldLeafset, i)}

RemovedSince ==
    {i \in DiffRange : IsSet(sync.oldLeafset, i) /\ ~IsSet(NewLeafsetOfSync, i)}

(***************************************************************************)
(* C14: over the indices below the larger of the old and the new leaf      *)
(* count, the leaves the spans of getMwebUtxos cover are exactly those set *)
(* in the new leafset and unset in the old one, and removedLeaves holds,   *)
(* once each, exactly those set in the old and unset in the new; the diff  *)
(* of a leafset with itself has no span and no removal; and the old        *)
(* leafset with the removals taken out and the additions put in is the new *)
(* leafset, bit for bit, below the new count.                              *)
(***************************************************************************)
C14_DifferExact ==
    runs = 1
        => /\ SpansLeaves = AddedSince
           /\ SeqRange(sync.removedLeaves) = RemovedSince
           /\ Len(sync.removedLeaves) = Cardinality(RemovedSince)
           /\ (sync.oldLeafset = NewLeafsetOfSync
                  /\ sync.oldNumLeaves = sync.newNumLeaves)
                 => (sync.addedLeaves = <<>> /\ sync.removedLeaves = <<>>)
           /\ \A i \in 0 .. sync.newNumLeaves - 1 :
                 IsSet(NewLeafsetOfSync, i)
                    <=> \/ i \in SpansLeaves
                        \/ (IsSet(sync.oldLeafset, i)
                               /\ i \notin SeqRange(sync.removedLeaves))

\* A sync over two-byte leafsets with the same first byte has planned a span
\* and a removal in the second byte, from more leaves down to fewer.
C14_Witness ==
    /\ runs = 1
    /\ Len(sync.oldLeafset) = 2
    /\ Len(NewLeafsetOfSync) = 2
    /\ sync.oldLeafset[1] = NewLeafsetOfSync[1]
    /\ sync.addedLeaves # <<>>
    /\ sync.removedLeaves # <<>>
    /\ sync.oldNumLeaves > sync.newNumLeaves

\* The positions of the bits set in the binary form of n.
BitsOf(n) == {b \in 0 .. 20 : (n \div Pow2(b)) % 2 = 1}

\* The same positions from the highest down.
RECURSIVE BitsDesc(_)
BitsDesc(n) ==
    IF n = 0 THEN <<>>
    ELSE LET b == CHOOSE x \in BitsOf(n) : \A y \in BitsOf(n) : y <= x
         IN  <<b>> \o BitsDesc(n - Pow2(b))

(***************************************************************************)
(* C15: for every leaf index i the node of leaf i is node                  *)
(* 2 * i - popcount(i), and that node maps back to leaf index i and has    *)
(* height 0.                                                               *)
(***************************************************************************)
C15_LeafNodeRoundTrip ==
    mOut.mapped
        => /\ mOut.node = 2 * mIn - Cardinality(BitsOf(mIn))
           /\ mOut.leaf = mIn
           /\ mOut.height = 0

\* Leaf 37, of three bits set, was mapped to node 71 and back.
C15_Witness ==
    /\ mOut.mapped
    /\ mIn = 37
    /\ mOut.node = 71
    /\ mOut.leaf = 37

(***************************************************************************)
(* C16: for every leaf count n, calcPeaks(nodeIdx(n)) returns one peak per *)
(* bit set in n, in ascending node index, the peak of the k-th highest bit *)
(* b being the root of a perfect subtree of height b, of 2^b leaves and    *)
(* 2^(b+1) - 1 nodes, that starts right after the peak before it (the      *)
(* first at node 0), so that the subtrees hold n leaves in all and their   *)
(* nodes are those from 0 to nodeIdx(n) - 1, the last peak being node      *)
(* nodeIdx(n) - 1.                                                         *)
(***************************************************************************)
C16_PeaksPartition ==
    mOut.peaked
        => LET peaks == mOut.peaks
               bits == BitsDesc(mIn)
               first(k) == IF k = 1 THEN 0 ELSE peaks[k - 1] + 1
           IN  /\ Len(peaks) = Cardinality(BitsOf(mIn))
               /\ \A k \in 1 .. Len(peaks) :
                     /\ peaks[k] - first(k) + 1 = Pow2(bits[k] + 1) - 1
                     /\ height(peaks[k]) = bits[k]
                     /\ k > 1 => peaks[k - 1] < peaks[k]
               /\ mIn > 0 => peaks[Len(peaks)] = 2 * mIn
                                  - Cardinality(BitsOf(mIn)) - 1
               /\ mIn = 0 => peaks = <<>>

\* The peaks of seven leaves are the nodes 6, 9 and 10.
C16_Witness ==
    /\ mOut.peaked
    /\ mIn = 7
    /\ mOut.peaks = <<6, 9, 10>>

\* The subscribers commit k of this sync called, in the order of the calls.
SubscribersOf(k) ==
    LET Of(e) == e.r = putCoinsLog[k]
        calls == SelectSeq(callbackLog, Of)
    IN  [j \in 1 .. Len(calls) |-> calls[j].cb]

\* getMwebUtxos is in its dispatch loop, a commit possibly behind it and
\* another ahead.
InDispatchLoop == pc = "wait"

\* notifyAddedMwebUtxos is between its Lock and its return.
InNotify == notify.pc = "fetch"

(***************************************************************************)
(* C17: getMwebUtxos holds b.mwebUtxosCallbacksMtx all through its         *)
(* dispatch loop, and so at every commit; while it is in the loop no       *)
(* callback is registered and notifyAddedMwebUtxos neither starts nor      *)
(* ends; every commit of a sync calls the same list of subscribers; and    *)
(* notifyAddedMwebUtxos, which calls the subscribers holding the mutex, is *)
(* never between its Lock and its return while getMwebUtxos is in the      *)
(* loop.                                                                   *)
(***************************************************************************)
C17_MutexSpansCommits ==
    /\ [](InDispatchLoop => mtx = "sync")
    /\ [](InNotify => mtx = "notify")
    /\ [](~(InDispatchLoop /\ InNotify))
    /\ [][putCoinsLog' # putCoinsLog /\ putCoinsLog' # <<>>
              => mtx = "sync"]_vars
    /\ [][purgeLog' # purgeLog /\ purgeLog' # <<>> /\ sync'.addedLeaves # <<>>
              => mtx = "sync"]_vars
    /\ [][InDispatchLoop
              => /\ mwebUtxosCallbacks' = mwebUtxosCallbacks
                 /\ notify' = notify]_vars
    /\ [](\A j, k \in 1 .. Len(putCoinsLog) :
              SubscribersOf(j) = SubscribersOf(k))
    /\ [](\A k \in 1 .. Len(putCoinsLog) :
              SubscribersOf(k) = mwebUtxosCallbacks \/ ~InDispatchLoop)

\* The sync is between its first and its second commit with the mutex held;
\* a subscriber was called for the first, and the wallet's call of
\* notifyAddedMwebUtxos ran to its end before the loop began.
C17_Witness ==
    /\ InDispatchLoop
    /\ mtx = "sync"
    /\ Len(putCoinsLog) = 1
    /\ SubscribersOf(1) = <<"cb1">>
    /\ notify.err = "nil"

\* getMwebUtxos is suspended: at the Lock of line 418 or in the select of
\* the wait loop.
CoordinatorSuspended == pc \in {"lock", "wait"}

\* handleResponse of worker w is suspended in the select of line 608.
HandlerSuspended(w) == workers[w].pc = "send"

(***************************************************************************)
(* C18: once b.quit is closed, under fair scheduling the wait loop of      *)
(* getMwebUtxos returns in the end, every call of handleResponse that is   *)
(* suspended on its send returns in the end, and from some moment on       *)
(* neither getMwebUtxos nor any handler is suspended any more.             *)
(***************************************************************************)
C18_ShutdownUnblocks ==
    /\ (quit /\ pc = "wait") ~> (pc \notin {"lock", "wait"})
    /\ \A w \in Workers :
           (quit /\ HandlerSuspended(w)) ~> ~HandlerSuspended(w)
    /\ quit ~> [](/\ ~CoordinatorSuspended
                  /\ \A w \in Workers : ~HandlerSuspended(w))

\* b.quit is closed while getMwebUtxos waits in its loop and a handler is
\* suspended on a send the full channel does not take.
C18_Witness ==
    /\ quit
    /\ pc = "wait"
    /\ \E w \in Workers : HandlerSuspended(w)
    /\ Len(utxosChan) = Len(q.msgs)

\* The members of a set of numbers in ascending order.
Ascending(S) ==
    CHOOSE s \in [1 .. Cardinality(S) -> S] :
        \A j, k \in 1 .. Cardinality(S) : j < k => s[j] < s[k]

\* The leaves below the leaf count read from the coin store that are set in
\* the leafset read from it and unset in the caller's.
AddedSinceSnapshot ==
    {i \in 0 .. (notify.newNumLeaves - 1) :
        IsSet(notify.newLeafset, i) /\ ~IsSet(notify.leafSet, i)}

\* What notifyAddedMwebUtxos leaves alone: the coin store, the query and
\* its channels, the handlers, the sync and its logs.
NotifyTouches ==
    <<storeVars, queryVars, utxosChan, errChan, workers, sync, logVars,
      storeErr, banned, pc, runs>>

(***************************************************************************)
(* C19: a step of notifyAddedMwebUtxos changes neither the coin store nor  *)
(* anything of the query.  It reads the leafset and the leaf count of the  *)
(* coin store, passes to FetchLeaves the leaves below that count that are  *)
(* set in that leafset and unset in the caller's, in ascending order, and  *)
(* when nothing fails calls each subscriber once, in registration order,   *)
(* with that leafset and the utxos FetchLeaves returned; when GetLeafSet,  *)
(* FetchLeaves or ChainTip fails it calls no subscriber.                   *)
(***************************************************************************)
C19_NotifyAddedOnly ==
    [][notify' # notify
         => /\ UNCHANGED NotifyTouches
            /\ notify.pc = "idle" /\ notify'.pc = "fetch"
                  => /\ notify'.newLeafset = dbLeafset
                     /\ notify'.newNumLeaves = dbNumLeaves
            /\ notify.pc = "idle" /\ notify'.pc = "idle"
                  => /\ notify'.err = "GetLeafSet"
                     /\ notify'.leaves = <<>>
                     /\ notify'.calls = <<>>
            /\ notify.pc = "fetch"
                  => /\ notify'.pc = "idle"
                     /\ notify'.leaves = Ascending(AddedSinceSnapshot)
                     /\ notify'.err # "nil" => notify'.calls = <<>>
                     /\ notify'.err = "nil"
                           => notify'.calls =
                                 [k \in 1 .. Len(mwebUtxosCallbacks) |->
                                     [cb |-> mwebUtxosCallbacks[k],
                                      leafset |-> notify.newLeafset,
                                      utxos |-> FetchLeaves(
                                          Ascending(AddedSinceSnapshot),
                                          dbCoins)]]]_vars

\* With leaves 0, 2, 3 and 4 persisted, a wallet that knew of leaves 1 and 4
\* had its subscriber called once with the utxos of leaves 0, 2 and 3.
C19_Witness ==
    /\ notify.err = "nil"
    /\ notify.leaves = <<0, 2, 3>>
    /\ Len(notify.calls) = 1
    /\ Len(notify.calls[1].utxos) = 3
    /\ notify.calls[1].leafset = <<184>>

(***************************************************************************)
(* C20: every span getMwebUtxos plans has a count from 1 to                *)
(* MaxMwebUtxosPerQuery; the starts of the spans ascend strictly; every    *)
(* leaf added lies in exactly one span; the first count leaves set in the  *)
(* new leafset from the start of a span on, the start among them, exist    *)
(* and are all added leaves, unset in the old leafset; and the requests of *)
(* the query are, span by span and in the order of the spans, one          *)
(* getmwebutxos for the block hash, the start and the count of the span,   *)
(* in the compact format.                                                  *)
(***************************************************************************)
C20_SpansWellFormed ==
    runs = 1
        => LET spans == sync.addedLeaves
           IN  /\ \A k \in 1 .. Len(spans) :
                     /\ 1 <= spans[k].count
                     /\ spans[k].count <= MaxMwebUtxosPerQuery
                     /\ k > 1 => spans[k - 1].start < spans[k].start
                     /\ spans[k].start \in SpanLeaves(spans[k])
                     /\ Cardinality(SpanLeaves(spans[k])) = spans[k].count
                     /\ \A i \in SpanLeaves(spans[k]) :
                           /\ IsSet(NewLeafsetOfSync, i)
                           /\ ~IsSet(sync.oldLeafset, i)
               /\ \A i \in AddedSince :
                     Cardinality({k \in 1 .. Len(spans) :
                                     i \in SpanLeaves(spans[k])}) = 1
               /\ Len(q.msgs) = Len(spans)
               /\ \A k \in 1 .. Len(spans) :
                     q.msgs[k] = [kind |-> "getmwebutxos",
                                  BlockHash |-> <<"block", sync.newNumLeaves>>,
                                  StartIndex |-> spans[k].start,
                                  NumRequested |-> spans[k].count,
                                  OutputFormat |-> "compact"]

\* A plan of three spans or more, one of them closed below the cap by a leaf
\* of the old leafset and a later one closed by the cap.
C20_Witness ==
    /\ runs = 1
    /\ Len(sync.addedLeaves) >= 3
    /\ Len(q.msgs) = Len(sync.addedLeaves)
    /\ \E j, k \in 1 .. Len(sync.addedLeaves) :
          /\ j < k
          /\ k < Len(sync.addedLeaves)
          /\ sync.addedLeaves[j].count < MaxMwebUtxosPerQuery
          /\ sync.addedLeaves[k].count = MaxMwebUtxosPerQuery

\* The first and the last LeafIndex of the message p of the peers.
FirstLeafOf(p) == peerMsgs[p].Utxos[1].LeafIndex

LastLeafOf(p) == peerMsgs[p].Utxos[Len(peerMsgs[p].Utxos)].LeafIndex

\* The utxos of message p begin at the start of the planned span k and end
\* before the start of the span after it.
WithinSpan(p, k) ==
    /\ FirstLeafOf(p) = sync.addedLeaves[k].start
    /\ k < Len(sync.addedLeaves)
           => LastLeafOf(p) < sync.addedLeaves[k + 1].start

\* The reassembly loop awaits a span.
AwaitsSpan == pc = "wait" /\ sync.i < Len(sync.addedLeaves)

\* Message p starts before the span awaited and ends in it or after it.
StraddlesFrontier(p) ==
    /\ AwaitsSpan
    /\ FirstLeafOf(p) < sync.addedLeaves[sync.i + 1].start
    /\ sync.addedLeaves[sync.i + 1].start <= LastLeafOf(p)

(***************************************************************************)
(* C21: a response handleResponse is about to send for a planned request   *)
(* begins at the start of the span of that request and ends before the     *)
(* start of the next span, so as long as utxosChan holds only what the     *)
(* handlers sent, no response on it has startIndex < curIndex <=           *)
(* lastIndex.  When a response of that shape is taken from the channel all *)
(* the same, the step that takes it calls neither PutCoins nor a           *)
(* subscriber and bans no peer; whatever is committed, then or later, lies *)
(* within the span of its place in the order of commits and is what the    *)
(* subscribers are called with; and no step of the reassembly loop bans a  *)
(* peer.                                                                   *)
(***************************************************************************)
C21_NoStraddler ==
    /\ [](\A w \in Workers :
             workers[w].pc = "send"
                => /\ FirstLeafOf(workers[w].resp) = workers[w].req.StartIndex
                   /\ \E k \in 1 .. Len(sync.addedLeaves) :
                         /\ q.msgs[k] = workers[w].req
                         /\ WithinSpan(workers[w].resp, k))
    /\ [](~stray => \A m \in 1 .. Len(utxosChan) :
                        ~StraddlesFrontier(utxosChan[m]))
    /\ [][(/\ utxosChan # <<>>
           /\ utxosChan' = Tail(utxosChan)
           /\ StraddlesFrontier(Head(utxosChan)))
             => /\ putCoinsLog' = putCoinsLog
                /\ callbackLog' = callbackLog
                /\ dbCoins' = dbCoins
                /\ banned' = banned]_vars
    /\ [](\A k \in 1 .. Len(putCoinsLog) : WithinSpan(putCoinsLog[k], k))
    /\ [](\A c \in 1 .. Len(callbackLog) :
             callbackLog[c].r \in SeqRange(putCoinsLog))
    /\ [][banned' # banned
             => (utxosChan' = utxosChan /\ sync' = sync)]_vars

\* A response that begins at leaf 0, already committed, and ends at leaf 2,
\* the start of the span awaited, was taken from the channel and sits in
\* the cache of the loop under its first leaf.
C21_Witness ==
    /\ stray
    /\ AwaitsSpan
    /\ utxosChan = <<>>
    /\ Len(putCoinsLog) = 1
    /\ \E k \in DOMAIN sync.queryResponses :
          /\ k < sync.addedLeaves[sync.i + 1].start
          /\ LastLeafOf(sync.queryResponses[k])
                >= sync.addedLeaves[sync.i + 1].start

\* A response for the planned span k is on utxosChan: a handler sent it.
InChannel(k) ==
    /\ k <= Len(sync.addedLeaves)
    /\ \E m \in 1 .. Len(utxosChan) :
          FirstLeafOf(utxosChan[m]) = sync.addedLeaves[k].start

\* The dispatcher's error channel holds an error that is not nil.
DispatcherFailed == errChan \in {"ErrWorkManagerShuttingDown", "error"}

\* Every planned span is committed and PutLeafSetAndPurge was called.
AllCommitted ==
    /\ sync.addedLeaves # <<>>
    /\ Len(putCoinsLog) = Len(sync.addedLeaves)
    /\ purgeLog # <<>> \/ storeErr = "PutLeafSetAndPurge"

\* The responses accepted and not yet received: those on utxosChan and
\* those a handler is about to send.
LiveResponses ==
    {<<"chan", m>> : m \in 1 .. Len(utxosChan)}
        \cup {<<"send", w>> : w \in {x \in Workers : workers[x].pc = "send"}}

LiveStart(x) ==
    IF x[1] = "chan" THEN FirstLeafOf(utxosChan[x[2]])
    ELSE FirstLeafOf(workers[x[2]].resp)

\* No two of them answer the same planned request.
AcceptedOnce ==
    \A x, y \in LiveResponses : x # y => LiveStart(x) # LiveStart(y)

\* utxosChan holds no more than the planned spans, and a handler at its
\* send can send at once unless a request was accepted twice.
SendNeverBlocks ==
    /\ Len(utxosChan) <= Len(sync.addedLeaves)
    /\ \A w \in Workers :
          (workers[w].pc = "send" /\ pc # "halted" /\ AcceptedOnce)
             => ENABLED handleResponseSend(w, FALSE)

=============================================================================
